---- MODULE Spec2Model ----
(***************************************************************************)
(* A model of the curve fitting application: the custom function manager   *)
(* (core/custom_function_manager.py), the built-in registry                *)
(* (core/function_models.py), the fitting dispatcher (core/fitting.py)     *)
(* and the objective functions it hands to the optimizers.                 *)
(*                                                                         *)
(* Floating point values are modelled on the integers extended with inf,   *)
(* -inf and nan; a numpy operation never raises on them, it returns a      *)
(* non-finite value, exactly as numpy does with its warnings.              *)
(***************************************************************************)
EXTENDS Integers, Naturals, Sequences, FiniteSets, TLC

VARIABLES
    custom_functions,  \* CustomFunctionManager.custom_functions of the long-lived manager
    file,              \* custom_functions/functions.json
    ret,               \* the last call on the manager and what it returned
    data,              \* DataManager: x_data, y_data and the element type of y_data
    fit,               \* the last run_fitting request and what happened in it
    obj,               \* the last objective evaluation or evaluator call
    registry           \* FunctionModels of the main window: functions and function_info

vars == <<custom_functions, file, ret, data, fit, obj, registry>>

(***************************************************************************)
(* Bounds of the model.                                                    *)
(***************************************************************************)
MaxSupplied == 8      \* longest bounds / x0 list a caller supplies
MaxData == 2          \* longest x_data / y_data array
MaxCatalog == 2       \* most entries the custom catalog holds
MaxDoc == 3           \* most entries of a functions.json that was not written by save_functions
MaxParams == 3        \* longest candidate parameter vector an objective is evaluated on

(***************************************************************************)
(* Values: floats (numpy float64 / Python float), the callables and the    *)
(* module of the evaluation namespace, objects json cannot serialise, and  *)
(* raised exceptions.                                                      *)
(***************************************************************************)
Fin(n) == [k |-> "fin", v |-> n]
Inf == [k |-> "inf", v |-> 0]
NInf == [k |-> "ninf", v |-> 0]
NaN == [k |-> "nan", v |-> 0]
Raise(e) == [k |-> e, v |-> 0]

FloatKinds == {"fin", "inf", "ninf", "nan"}
Exceptions == {"SyntaxError", "NameError", "TypeError", "AttributeError", "KeyError",
               "OverflowError", "ValueError"}
IsNum(a) == a.k \in FloatKinds
IsErr(a) == a.k \in Exceptions
IsFinite(a) == a.k = "fin"

Sign(a) == IF a.k = "inf" THEN 1
           ELSE IF a.k = "ninf" THEN -1
           ELSE IF a.v > 0 THEN 1 ELSE IF a.v < 0 THEN -1 ELSE 0

Signed(s) == IF s > 0 THEN Inf ELSE NInf

FNeg(a) == CASE a.k = "fin" -> Fin(-a.v)
             [] a.k = "inf" -> NInf
             [] a.k = "ninf" -> Inf
             [] OTHER -> NaN

FAdd(a, b) == CASE a.k = "nan" \/ b.k = "nan" -> NaN
                [] a.k = "fin" /\ b.k = "fin" -> Fin(a.v + b.v)
                [] a.k = "fin" -> b
                [] b.k = "fin" -> a
                [] a.k = b.k -> a
                [] OTHER -> NaN

FSub(a, b) == FAdd(a, FNeg(b))

FMul(a, b) == CASE a.k = "nan" \/ b.k = "nan" -> NaN
                [] a.k = "fin" /\ b.k = "fin" -> Fin(a.v * b.v)
                [] Sign(a) = 0 \/ Sign(b) = 0 -> NaN
                [] OTHER -> Signed(Sign(a) * Sign(b))

RECURSIVE IPow(_, _)
IPow(b, e) == IF e <= 0 THEN 1 ELSE b * IPow(b, e - 1)

\* x ** e on float64; a result that is not an integer is truncated toward zero
FPow(a, e) ==
    CASE e.k = "fin" /\ e.v = 0 -> Fin(1)
      [] a.k = "nan" \/ e.k = "nan" -> NaN
      [] a.k = "fin" /\ e.k = "fin" /\ e.v > 0 -> Fin(IPow(a.v, e.v))
      [] a.k = "fin" /\ e.k = "fin" /\ a.v = 0 -> Inf
      [] a.k = "fin" /\ e.k = "fin" /\ a.v = 1 -> Fin(1)
      [] a.k = "fin" /\ e.k = "fin" /\ a.v = -1 -> Fin(IPow(-1, -e.v))
      [] a.k = "fin" /\ e.k = "fin" -> Fin(0)
      [] a.k = "fin" /\ e.k = "inf" ->
            IF a.v \in {1, -1} THEN Fin(1) ELSE IF a.v = 0 THEN Fin(0) ELSE Inf
      [] a.k = "fin" /\ e.k = "ninf" ->
            IF a.v \in {1, -1} THEN Fin(1) ELSE IF a.v = 0 THEN Inf ELSE Fin(0)
      [] a.k = "inf" -> IF Sign(e) > 0 THEN Inf ELSE Fin(0)
      [] OTHER -> IF Sign(e) < 0 THEN Fin(0)
                  ELSE IF e.k = "fin" /\ e.v % 2 = 1 THEN NInf ELSE Inf

\* np.log, truncated toward zero on the finite values above 1
FLog(a) == CASE a.k = "nan" \/ a.k = "ninf" -> NaN
             [] a.k = "inf" -> Inf
             [] a.v < 0 -> NaN
             [] a.v = 0 -> NInf
             [] a.v < 3 -> Fin(0)
             [] a.v < 8 -> Fin(1)
             [] a.v < 21 -> Fin(2)
             [] a.v < 55 -> Fin(3)
             [] OTHER -> Fin(4)

\* np.exp, truncated toward zero; exact at 0
FExp(a) == CASE a.k = "nan" -> NaN
             [] a.k = "inf" -> Inf
             [] a.k = "ninf" -> Fin(0)
             [] a.v < 0 -> Fin(0)
             [] a.v = 0 -> Fin(1)
             [] a.v = 1 -> Fin(2)
             [] a.v = 2 -> Fin(7)
             [] a.v = 3 -> Fin(20)
             [] a.v = 4 -> Fin(54)
             [] OTHER -> Fin(54 * IPow(3, a.v - 4))

\* np.sin and np.cos, truncated toward zero
FSin(a) == IF a.k = "fin" THEN Fin(0) ELSE NaN
FCos(a) == IF a.k = "fin" THEN (IF a.v = 0 THEN Fin(1) ELSE Fin(0)) ELSE NaN

ApplyUfunc(f, a) == CASE f = "sin" -> FSin(a)
                      [] f = "cos" -> FCos(a)
                      [] f = "exp" -> FExp(a)
                      [] OTHER -> FLog(a)

Ufuncs == {"sin", "cos", "exp", "log"}

(***************************************************************************)
(* Expressions.  An expression is a string; Python's eval compiles it on   *)
(* every call.  Parse gives the syntax tree of the strings the model uses. *)
(***************************************************************************)
Name(id) == <<"name", id>>
Add(l, r) == <<"add", l, r>>
Mul(l, r) == <<"mul", l, r>>
Pow(l, r) == <<"pow", l, r>>
Call(f, a) == <<"call", f, a>>
Attr(o, a) == <<"attr", o, a>>

Parse(expression) ==
    CASE expression = "a*x+b" -> Add(Mul(Name("a"), Name("x")), Name("b"))
      [] expression = "a*x" -> Mul(Name("a"), Name("x"))
      [] expression = "a*x**b+c" -> Add(Mul(Name("a"), Pow(Name("x"), Name("b"))), Name("c"))
      [] expression = "a*log(x)" -> Mul(Name("a"), Call(Name("log"), Name("x")))
      [] expression = "a*x+q" -> Add(Mul(Name("a"), Name("x")), Name("q"))
      [] expression = "a*np.abs(x)" -> Mul(Name("a"), Call(Attr(Name("np"), "abs"), Name("x")))
      [] expression = "a*abs(x)" -> Mul(Name("a"), Call(Name("abs"), Name("x")))
      [] OTHER -> <<"SyntaxError">>

\* attributes of the numpy module an expression can reach through the name np
NpAttr(a) == IF a \in Ufuncs \cup {"abs"} THEN [k |-> a, v |-> 0] ELSE Raise("AttributeError")

\* a numpy float32 takes part in arithmetic as a float
AsFloat(a) == IF a.k = "float32" THEN Fin(a.v) ELSE a

Binary(op, l, r) ==
    LET a == AsFloat(l)
        b == AsFloat(r)
    IN  IF IsErr(a) THEN a
        ELSE IF IsErr(b) THEN b
        ELSE IF ~(IsNum(a) /\ IsNum(b)) THEN Raise("TypeError")
        ELSE CASE op = "add" -> FAdd(a, b)
               [] op = "mul" -> FMul(a, b)
               [] OTHER -> FPow(a, b)

FAbs(a) == CASE a.k = "fin" -> Fin(IF a.v < 0 THEN -a.v ELSE a.v)
             [] a.k = "nan" -> NaN
             [] OTHER -> Inf

CallValue(f, arg) ==
    LET a == AsFloat(arg)
    IN  IF IsErr(f) THEN f
        ELSE IF IsErr(a) THEN a
        ELSE IF f.k \in Ufuncs /\ IsNum(a) THEN ApplyUfunc(f.k, a)
        ELSE IF f.k = "abs" /\ IsNum(a) THEN FAbs(a)
        ELSE Raise("TypeError")

RECURSIVE EvalNode(_, _)
EvalNode(node, namespace) ==
    CASE node[1] = "name" ->
            IF node[2] \in DOMAIN namespace THEN namespace[node[2]] ELSE Raise("NameError")
      [] node[1] = "attr" ->
            LET o == EvalNode(node[2], namespace)
            IN  IF IsErr(o) THEN o
                ELSE IF o.k = "np" THEN NpAttr(node[3])
                ELSE Raise("AttributeError")
      [] node[1] = "call" ->
            CallValue(EvalNode(node[2], namespace), EvalNode(node[3], namespace))
      [] OTHER ->
            Binary(node[1], EvalNode(node[2], namespace), EvalNode(node[3], namespace))

\* eval(expression, {"__builtins__": {}}, namespace)
eval(expression, namespace) ==
    LET tree == Parse(expression)
    IN  IF tree[1] = "SyntaxError" THEN Raise("SyntaxError") ELSE EvalNode(tree, namespace)

(***************************************************************************)
(* The built-in registry: FunctionModels.                                  *)
(***************************************************************************)
BuiltinNames == <<"Linear", "Quadratic", "Cubic", "Power Law", "Exponential",
                  "Double Power Law", "Triple Power Law">>

Builtins == {BuiltinNames[i] : i \in 1..Len(BuiltinNames)}

BuiltinParams(name) ==
    CASE name = "Linear" -> <<"a", "b">>
      [] name = "Quadratic" -> <<"a", "b", "c">>
      [] name = "Cubic" -> <<"a", "b", "c", "d">>
      [] name = "Power Law" -> <<"a", "b", "c">>
      [] name = "Exponential" -> <<"a", "b", "c">>
      [] name = "Double Power Law" -> <<"a", "b", "c", "d">>
      [] OTHER -> <<"a", "b", "c", "d", "e", "f">>

BuiltinEquation(name) ==
    CASE name = "Linear" -> "y = a*x + b"
      [] name = "Quadratic" -> "y = a*x^2 + b*x + c"
      [] name = "Cubic" -> "y = a*x^3 + b*x^2 + c*x + d"
      [] name = "Power Law" -> "y = a*x^b + c"
      [] name = "Exponential" -> "y = a*exp(b*x) + c"
      [] name = "Double Power Law" -> "y = a*x^b + c*x^d"
      [] OTHER -> "y = a*x^b + c*x^d + e*x^f"

BuiltinParamCount(name) ==
    CASE name = "Linear" -> 2
      [] name = "Quadratic" -> 3
      [] name = "Cubic" -> 4
      [] name = "Power Law" -> 3
      [] name = "Exponential" -> 3
      [] name = "Double Power Law" -> 4
      [] OTHER -> 6

\* what a lookup returns for an unknown name (Python's None)
None == [equation |-> "", params |-> <<>>, param_count |-> -1]
IsNone(info) == info.param_count = -1

NoFunction == [kind |-> "none", name |-> "", expression |-> "", param_names |-> <<>>]

\* FunctionModels().get_function(name)
ModelsGetFunction(name) ==
    IF name \in Builtins
    THEN [kind |-> "builtin", name |-> name, expression |-> "", param_names |-> <<>>]
    ELSE NoFunction

\* FunctionModels().get_function_info(name)
ModelsGetFunctionInfo(name) ==
    IF name \in Builtins
    THEN [equation |-> BuiltinEquation(name), params |-> BuiltinParams(name),
          param_count |-> BuiltinParamCount(name)]
    ELSE None

\* the Python signature of a built-in: def f(self, x, a, b, ...)
Arity(name) ==
    CASE name = "Linear" -> 2
      [] name = "Quadratic" -> 3
      [] name = "Cubic" -> 4
      [] name = "Power Law" -> 3
      [] name = "Exponential" -> 3
      [] name = "Double Power Law" -> 4
      [] OTHER -> 6

BuiltinBody(name, x, p) ==
    CASE name = "Linear" -> FAdd(FMul(p[1], x), p[2])
      [] name = "Quadratic" ->
            FAdd(FAdd(FMul(p[1], FPow(x, Fin(2))), FMul(p[2], x)), p[3])
      [] name = "Cubic" ->
            FAdd(FAdd(FAdd(FMul(p[1], FPow(x, Fin(3))), FMul(p[2], FPow(x, Fin(2)))),
                      FMul(p[3], x)), p[4])
      [] name = "Power Law" -> FAdd(FMul(p[1], FPow(x, p[2])), p[3])
      [] name = "Exponential" -> FAdd(FMul(p[1], FExp(FMul(p[2], x))), p[3])
      [] name = "Double Power Law" ->
            FAdd(FMul(p[1], FPow(x, p[2])), FMul(p[3], FPow(x, p[4])))
      [] OTHER ->
            FAdd(FAdd(FMul(p[1], FPow(x, p[2])), FMul(p[3], FPow(x, p[4]))),
                 FMul(p[5], FPow(x, p[6])))

\* calling a built-in with the wrong number of positional arguments is a TypeError
BuiltinCall(name, x, args) ==
    IF Len(args) # Arity(name) THEN Raise("TypeError") ELSE BuiltinBody(name, x, args)

(***************************************************************************)
(* The evaluator create_function_from_string builds.                       *)
(***************************************************************************)
Min(a, b) == IF a < b THEN a ELSE b
Max(a, b) == IF a > b THEN a ELSE b

NamespaceBase == {"np", "sin", "cos", "exp", "log"}

\* the namespace with a parameter named x taking the place of the input
custom_namespace_param_x(param_names, x, args) ==
    LET n == Min(Len(param_names), Len(args))
        bound == {param_names[i] : i \in 1..n}
        last(nm) == CHOOSE i \in 1..n :
                        /\ param_names[i] = nm
                        /\ \A j \in 1..n : param_names[j] = nm => j <= i
    IN  [nm \in NamespaceBase \cup bound \cup {"x"} |->
            IF nm \in bound THEN args[last(nm)]
            ELSE IF nm = "x" THEN x
            ELSE [k |-> nm, v |-> 0]]

\* the namespace custom_function evaluates in: param_dict of the first
\* min(len(param_names), len(args)) names, then param_dict['x'] = x, over
\* np, sin, cos, exp and log
custom_namespace(param_names, x, args) ==
    LET n == Min(Len(param_names), Len(args))
        bound == {param_names[i] : i \in 1..n}
        last(nm) == CHOOSE i \in 1..n :
                        /\ param_names[i] = nm
                        /\ \A j \in 1..n : param_names[j] = nm => j <= i
    IN  [nm \in NamespaceBase \cup bound \cup {"x"} |->
            IF nm = "x" THEN x
            ELSE IF nm \in bound THEN args[last(nm)]
            ELSE [k |-> nm, v |-> 0]]

\* custom_function(x, *args) of create_function_from_string
custom_function(expression, param_names, x, args) ==
    eval(expression, custom_namespace(param_names, x, args))

CallFunction(function, x, args) ==
    IF function.kind = "builtin"
    THEN BuiltinCall(function.name, x, args)
    ELSE custom_function(function.expression, function.param_names, x, args)

\* what a call on an array gives, from the outcome of the call on a probe
\* element (ys[1]) and on each element: the exception of the call, else the
\* array of values
Elementwise(ys) ==
    IF IsErr(ys[1])
    THEN [raised |-> TRUE, exc |-> ys[1].k, values |-> <<>>]
    ELSE [raised |-> FALSE, exc |-> "", values |-> Tail(ys)]

\* function(x_data, *params) on a numpy array: elementwise, and an exception
\* is raised by the call as a whole, for an empty array too
CallOnArray(function, xs, args) ==
    Elementwise([i \in 1..(Len(xs) + 1) |->
                    CallFunction(function, IF i = 1 THEN Fin(1) ELSE xs[i - 1], args)])

(***************************************************************************)
(* The custom function manager: CustomFunctionManager.                     *)
(***************************************************************************)
Absent == "<absent>"     \* a key that is missing from a dict

HasKey(cat, name) == \E i \in 1..Len(cat) : cat[i].name = name
IndexOf(cat, name) == CHOOSE i \in 1..Len(cat) : cat[i].name = name

\* d[name] = entry on an insertion-ordered dict
Put(cat, entry) ==
    IF HasKey(cat, entry.name)
    THEN [cat EXCEPT ![IndexOf(cat, entry.name)] = entry]
    ELSE Append(cat, entry)

\* del d[name]
Del(cat, name) ==
    LET i == IndexOf(cat, name)
    IN  SubSeq(cat, 1, i - 1) \o SubSeq(cat, i + 1, Len(cat))

\* param_names = [p['name'] for p in params] raises KeyError on a record without 'name'
CanCreate(params) == \A i \in 1..Len(params) : params[i].name # Absent

create_function_from_string(expression, params) ==
    [kind |-> "custom", name |-> "custom_function", expression |-> expression,
     param_names |-> [i \in 1..Len(params) |-> params[i].name]]

MakeEntry(name, expression, params) ==
    [name |-> name,
     function |-> create_function_from_string(expression, params),
     expression |-> expression,
     params |-> params,
     param_count |-> Len(params),
     equation |-> expression]

\* json.dump raises TypeError on a value that is not a str, float, list or dict
Serialisable(cat) ==
    \A i \in 1..Len(cat) : \A j \in 1..Len(cat[i].params) :
        cat[i].params[j].init_value.k \in FloatKinds

NoFile == [kind |-> "missing", doc |-> <<>>]
Corrupt == [kind |-> "corrupt", doc |-> <<>>]

\* save_data that forgets the last declared parameter of every function
save_data_drop(cat) ==
    [i \in 1..Len(cat) |->
        [name |-> cat[i].name, keys |-> {"expression", "params"},
         expression |-> cat[i].expression,
         params |-> SubSeq(cat[i].params, 1, Len(cat[i].params) - 1)]]

save_data(cat) ==
    [i \in 1..Len(cat) |->
        [name |-> cat[i].name, keys |-> {"expression", "params"},
         expression |-> cat[i].expression, params |-> cat[i].params]]

\* save_functions: open(..., 'w') truncates the file before json.dump writes
\* to it, so a failure after the open leaves a partial document behind
save_functions(cat, old, io) ==
    IF io = "open_fails" THEN [ok |-> FALSE, file |-> old]
    ELSE IF io = "write_fails" \/ ~Serialisable(cat) THEN [ok |-> FALSE, file |-> Corrupt]
    ELSE [ok |-> TRUE, file |-> [kind |-> "json", doc |-> save_data(cat)]]

WellFormed(e) ==
    /\ "expression" \in e.keys
    /\ "params" \in e.keys
    /\ CanCreate(e.params)

RECURSIVE LoadEntries(_, _, _)
LoadEntries(doc, i, acc) ==
    IF i > Len(doc) THEN acc
    ELSE IF ~WellFormed(doc[i]) THEN acc
    ELSE LoadEntries(doc, i + 1, Put(acc, MakeEntry(doc[i].name, doc[i].expression, doc[i].params)))

\* load_functions without the reset of self.custom_functions
load_functions_kept(f) ==
    IF f.kind # "json" THEN custom_functions ELSE LoadEntries(f.doc, 1, <<>>)

\* load_functions: the catalog a manager holds after reading the file
load_functions(f) ==
    IF f.kind # "json" THEN <<>> ELSE LoadEntries(f.doc, 1, <<>>)

\* CustomFunctionManager.get_function(name)
get_function(cat, name) ==
    IF HasKey(cat, name) THEN cat[IndexOf(cat, name)].function ELSE NoFunction

\* CustomFunctionManager.get_function_info(name): the entry without 'function'
get_function_info(cat, name) ==
    IF HasKey(cat, name)
    THEN LET e == cat[IndexOf(cat, name)]
         IN  [expression |-> e.expression, params |-> e.params,
              param_count |-> e.param_count, equation |-> e.equation]
    ELSE [expression |-> "", params |-> <<>>, param_count |-> -1, equation |-> ""]

\* add_function that answers True without writing functions.json
add_function_unsaved(cat, f, name, expression, params, io) ==
    IF ~CanCreate(params)
    THEN [value |-> FALSE, cat |-> cat, file |-> f]
    ELSE [value |-> TRUE, cat |-> Put(cat, MakeEntry(name, expression, params)),
          file |-> f]

\* add_function(name, expression, params): the value returned and the state left
add_function(cat, f, name, expression, params, io) ==
    IF ~CanCreate(params)
    THEN [value |-> FALSE, cat |-> cat, file |-> f]
    ELSE LET stored == Put(cat, MakeEntry(name, expression, params))
             saved == save_functions(stored, f, io)
         IN  [value |-> saved.ok, cat |-> stored, file |-> saved.file]

\* remove_function that reports the removal rather than the save
remove_function_removed(cat, f, name, io) ==
    IF HasKey(cat, name)
    THEN LET rest == Del(cat, name)
             saved == save_functions(rest, f, io)
         IN  [value |-> TRUE, cat |-> rest, file |-> saved.file]
    ELSE [value |-> FALSE, cat |-> cat, file |-> f]

\* remove_function(name)
remove_function(cat, f, name, io) ==
    IF HasKey(cat, name)
    THEN LET rest == Del(cat, name)
             saved == save_functions(rest, f, io)
         IN  [value |-> saved.ok, cat |-> rest, file |-> saved.file]
    ELSE [value |-> FALSE, cat |-> cat, file |-> f]

(***************************************************************************)
(* Inputs of the manager's operations.                                     *)
(***************************************************************************)
Param(nm, v) == [name |-> nm, init_value |-> v, desc |-> ""]

P_a == <<Param("a", Fin(2))>>
P_ab == <<Param("a", Fin(2)), Param("b", Fin(3))>>
P_abc == <<Param("a", Fin(2)), Param("b", Fin(3)), Param("c", Fin(1))>>
\* an init_value json cannot write: a numpy float32
P_float32 == <<Param("a", Fin(2)), Param("b", [k |-> "float32", v |-> 3])>>
P_noname == <<[name |-> Absent, init_value |-> Fin(2), desc |-> ""]>>

Names == {"f", "g"}
Expressions == {"a*x+b", "a*x+", "a*x+q"}
ParamLists == {P_ab, P_float32, P_noname}
IO == {"ok", "open_fails", "write_fails"}

NoCall == [op |-> "init", name |-> "", expression |-> "", params |-> <<>>,
           io |-> "ok", had |-> FALSE, value |-> FALSE]

(***************************************************************************)
(* The manager's operations as steps.                                      *)
(***************************************************************************)
AddFunction(name, expression, params, io) ==
    LET r == add_function(custom_functions, file, name, expression, params, io)
    IN  /\ Len(r.cat) <= MaxCatalog
        /\ custom_functions' = r.cat
        /\ file' = r.file
        /\ ret' = [op |-> "add", name |-> name, expression |-> expression,
                   params |-> params, io |-> io,
                   had |-> HasKey(custom_functions, name), value |-> r.value]
        /\ UNCHANGED <<registry, data, fit, obj>>

RemoveFunction(name, io) ==
    LET r == remove_function(custom_functions, file, name, io)
    IN  /\ custom_functions' = r.cat
        /\ file' = r.file
        /\ ret' = [op |-> "remove", name |-> name, expression |-> "",
                   params |-> <<>>, io |-> io,
                   had |-> HasKey(custom_functions, name), value |-> r.value]
        /\ UNCHANGED <<registry, data, fit, obj>>

\* a new CustomFunctionManager on the same directory (__init__ calls load_functions)
LoadFunctions ==
    /\ custom_functions' = load_functions(file)
    /\ ret' = [NoCall EXCEPT !.op = "load", !.had = Len(custom_functions) > 0]
    /\ UNCHANGED <<registry, file, data, fit, obj>>

\* FunctionModels.__init__: the two tables, in insertion order
FunctionModelsInit ==
    [functions |-> [i \in 1..Len(BuiltinNames) |->
                      [name |-> BuiltinNames[i], function |-> ModelsGetFunction(BuiltinNames[i])]],
     function_info |-> [i \in 1..Len(BuiltinNames) |->
                          [name |-> BuiltinNames[i],
                           info |-> ModelsGetFunctionInfo(BuiltinNames[i])]]]

NoFit == [outcome |-> "none"]
NoObj == [kind |-> "none"]
\* DataManager.__init__: x_data = None, y_data = None, true_params = None
NoTrueParams == <<>>
NoData == [has |-> FALSE, x_data |-> <<>>, y_data |-> <<>>, dtype |-> "float64",
           has_true |-> FALSE, true_params |-> NoTrueParams]

Init ==
    /\ custom_functions = <<>>
    /\ file = NoFile
    /\ ret = NoCall
    /\ registry = FunctionModelsInit
    /\ data = NoData
    /\ fit = NoFit
    /\ obj = NoObj

Next ==
    \/ \E name \in Names, expression \in Expressions, params \in ParamLists, io \in IO :
          AddFunction(name, expression, params, io)
    \/ \E name \in Names, io \in IO : RemoveFunction(name, io)
    \/ LoadFunctions

Spec == Init /\ [][Next]_vars

(***************************************************************************)
(* The objectives of core/fitting.py: residual_func and residual_array.    *)
(***************************************************************************)
\* func.__code__.co_code: the instructions of the body, which hold the index
\* (not the name or the value) of every local, constant and global; self is
\* local 0, x local 1 and the parameters follow
co_code(function) ==
    IF function.kind # "builtin"
    THEN <<"LOAD_CLOSURE", "BUILD_MAP", "STORE_SUBSCR", "LOAD_GLOBAL eval", "CALL 3",
           "RETURN_VALUE">>
    ELSE CASE function.name = "Linear" ->
                <<"LOAD_FAST 2", "LOAD_FAST 1", "MUL", "LOAD_FAST 3", "ADD",
                  "RETURN_VALUE">>
           [] function.name = "Quadratic" ->
                <<"LOAD_FAST 2", "LOAD_FAST 1", "LOAD_CONST 1", "POW", "MUL",
                  "LOAD_FAST 3", "LOAD_FAST 1", "MUL", "ADD", "LOAD_FAST 4", "ADD",
                  "RETURN_VALUE">>
           [] function.name = "Cubic" ->
                <<"LOAD_FAST 2", "LOAD_FAST 1", "LOAD_CONST 1", "POW", "MUL",
                  "LOAD_FAST 3", "LOAD_FAST 1", "LOAD_CONST 2", "POW", "MUL", "ADD",
                  "LOAD_FAST 4", "LOAD_FAST 1", "MUL", "ADD", "LOAD_FAST 5", "ADD",
                  "RETURN_VALUE">>
           [] function.name = "Power Law" ->
                <<"LOAD_FAST 2", "LOAD_FAST 1", "LOAD_FAST 3", "POW", "MUL",
                  "LOAD_FAST 4", "ADD", "RETURN_VALUE">>
           [] function.name = "Exponential" ->
                <<"LOAD_FAST 2", "LOAD_GLOBAL 0", "LOAD_ATTR 1", "LOAD_FAST 3",
                  "LOAD_FAST 1", "MUL", "CALL 1", "MUL", "LOAD_FAST 4", "ADD",
                  "RETURN_VALUE">>
           [] function.name = "Double Power Law" ->
                <<"LOAD_FAST 2", "LOAD_FAST 1", "LOAD_FAST 3", "POW", "MUL",
                  "LOAD_FAST 4", "LOAD_FAST 1", "LOAD_FAST 5", "POW", "MUL", "ADD",
                  "RETURN_VALUE">>
           [] OTHER ->
                <<"LOAD_FAST 2", "LOAD_FAST 1", "LOAD_FAST 3", "POW", "MUL",
                  "LOAD_FAST 4", "LOAD_FAST 1", "LOAD_FAST 5", "POW", "MUL", "ADD",
                  "LOAD_FAST 6", "LOAD_FAST 1", "LOAD_FAST 7", "POW", "MUL", "ADD",
                  "RETURN_VALUE">>

\* the registry entries whose bytecode is the bytecode of the target
SameCode(function) ==
    {i \in 1..Len(BuiltinNames) :
        co_code(ModelsGetFunction(BuiltinNames[i])) = co_code(function)}

\* the loop over function_models.functions comparing __code__.co_code, left
\* at the first match: the param_count of that built-in, -1 for None
expected_param_count(function) ==
    IF SameCode(function) = {}
    THEN -1
    ELSE ModelsGetFunctionInfo(
             BuiltinNames[CHOOSE i \in SameCode(function) :
                             \A j \in SameCode(function) : i <= j]).param_count

\* the candidate vector handed on as it is
params_array_untrimmed(function, params) == params

\* params_array[:expected_param_count] when the vector is too long
params_array(function, params) ==
    LET expected == expected_param_count(function)
    IN  IF expected # -1 /\ Len(params) > expected
        THEN SubSeq(params, 1, expected)
        ELSE params

RECURSIVE FSum(_)
FSum(values) ==
    IF Len(values) = 0 THEN Fin(0) ELSE FAdd(values[1], FSum(Tail(values)))

\* np.sum((y_data - y_pred) ** 2)
sum_of_squares(y_data, y_pred) ==
    FSum([i \in 1..Len(y_data) |-> FPow(FSub(y_data[i], y_pred[i]), Fin(2))])

\* residual without its try/except: the exception reaches the optimizer
residual_unguarded(y_data, y_pred) ==
    IF y_pred.raised THEN Raise(y_pred.exc) ELSE sum_of_squares(y_data, y_pred.values)

\* the body of residual(params) once the target was called: the except branch
\* returns np.inf, the try branch the sum of squares
residual(y_data, y_pred) ==
    IF y_pred.raised THEN Inf ELSE sum_of_squares(y_data, y_pred.values)

\* residual_func(function, x_data, y_data)(params): the scalar objective
residual_func(function, x_data, y_data, params) ==
    residual(y_data, CallOnArray(function, x_data, params_array(function, params)))

\* the smallest int64, what an unsafe cast of inf to int64 gives
IntMin == [k |-> "int64_min", v |-> 0]

\* np.full_like(y_data, np.inf): an array of inf for float y_data; for int64
\* y_data numpy either raises OverflowError or casts inf to the smallest
\* int64, depending on the numpy build
full_like_inf(y_data, dtype, build) ==
    IF dtype = "float64"
    THEN [raised |-> FALSE, exc |-> "", values |-> [i \in 1..Len(y_data) |-> Inf]]
    ELSE IF build = "raises"
    THEN [raised |-> TRUE, exc |-> "OverflowError", values |-> <<>>]
    ELSE [raised |-> FALSE, exc |-> "", values |-> [i \in 1..Len(y_data) |-> IntMin]]

\* the body of the vector residual(params) once the target was called
residual_vector(y_data, dtype, y_pred, build) ==
    IF y_pred.raised
    THEN full_like_inf(y_data, dtype, build)
    ELSE [raised |-> FALSE, exc |-> "",
          values |-> [i \in 1..Len(y_data) |-> FSub(y_data[i], y_pred.values[i])]]

\* residual_array(function, x_data, y_data)(params): the vector objective
residual_array(function, x_data, y_data, dtype, params, build) ==
    residual_vector(y_data, dtype,
                    CallOnArray(function, x_data, params_array(function, params)), build)

(***************************************************************************)
(* Evaluating the objectives on candidate parameter vectors.               *)
(***************************************************************************)
XValues == {Fin(-1), Fin(0), Fin(1)}
ParamValues == {Fin(-1), Fin(0), Fin(1)}
Builds == {"raises", "casts"}

\* the datasets set_data can store: equal lengths, y float64 or int64
Datasets ==
    UNION {{[has |-> TRUE, x_data |-> x, y_data |-> [i \in 1..n |-> Fin(i)], dtype |-> t,
             has_true |-> FALSE, true_params |-> <<>>] :
                x \in [1..n -> XValues], t \in {"float64", "int64"}} : n \in 1..MaxData}

Candidates == UNION {[1..n -> ParamValues] : n \in 0..MaxParams}

ObjectiveFunctions ==
    {ModelsGetFunction("Linear"), ModelsGetFunction("Power Law"),
     create_function_from_string("a*x+b", P_ab),
     create_function_from_string("a*x+q", P_ab),
     create_function_from_string("a*log(x)", P_a),
     create_function_from_string("a*x+", P_ab)}

\* an evaluation the optimizer is about to make: the target and the candidate
Pending(function, params) ==
    [kind |-> "pending", function |-> function, params |-> params,
     y_pred |-> [raised |-> FALSE, exc |-> "", values |-> <<>>],
     escaped |-> FALSE, value |-> Fin(0), values |-> <<>>]

\* what is recorded of an evaluation of the scalar objective
ScalarOutcome(o, y_pred, value) ==
    [o EXCEPT !.kind = "scalar", !.y_pred = y_pred,
              !.escaped = IsErr(value), !.value = value]

\* what is recorded of an evaluation of the vector objective
VectorOutcome(o, y_pred, r) ==
    [o EXCEPT !.kind = "vector", !.y_pred = y_pred,
              !.escaped = r.raised, !.values = r.values]

\* the optimizer calls the scalar objective on the candidate
EvalResidual ==
    /\ obj.kind = "pending"
    /\ obj' = ScalarOutcome(obj,
                CallOnArray(obj.function, data.x_data,
                            params_array(obj.function, obj.params)),
                residual_func(obj.function, data.x_data, data.y_data, obj.params))
    /\ UNCHANGED <<registry, custom_functions, file, ret, data, fit>>

\* the optimizer calls the vector objective on the candidate
EvalResidualArray(build) ==
    /\ obj.kind = "pending"
    /\ obj' = VectorOutcome(obj,
                CallOnArray(obj.function, data.x_data,
                            params_array(obj.function, obj.params)),
                residual_array(obj.function, data.x_data, data.y_data, data.dtype,
                               obj.params, build))
    /\ UNCHANGED <<registry, custom_functions, file, ret, data, fit>>

InitObjective ==
    /\ custom_functions = <<>>
    /\ file = NoFile
    /\ ret = NoCall
    /\ registry = FunctionModelsInit
    /\ data \in Datasets
    /\ fit = NoFit
    /\ obj \in {Pending(function, params) :
                   function \in ObjectiveFunctions, params \in Candidates}

NextObjective ==
    \/ EvalResidual
    \/ \E build \in Builds : EvalResidualArray(build)

SpecObjective == InitObjective /\ [][NextObjective]_vars

(***************************************************************************)
(* The fitting dispatcher: FittingAlgorithms.                              *)
(***************************************************************************)
Algorithms == {"Differential Evolution", "Basin Hopping", "SHGO", "Dual Annealing",
               "Least Squares"}

DefaultBound == <<0, 10>>
DefaultGuess == Fin(1)
FallbackParamCount == 3

Repeat(v, n) == [i \in 1..n |-> v]

\* the param_count every routine recomputes from a fresh FunctionModels:
\* function_info['param_count'] if function_info else 3
routine_param_count(function_name) ==
    LET function_info == ModelsGetFunctionInfo(function_name)
    IN  IF IsNone(function_info) THEN FallbackParamCount ELSE function_info.param_count

\* the claimed coercion: truncate a long list, pad a short one with the default
bounds_coerced(params, param_count) ==
    LET bounds == IF params.has_bounds THEN params.bounds ELSE <<>>
    IN  [i \in 1..param_count |-> IF i <= Len(bounds) THEN bounds[i] ELSE DefaultBound]

\* bounds = params.get('bounds', [(0, 10)] * param_count), reset when the length is wrong
bounds_used(params, param_count) ==
    LET bounds == IF params.has_bounds THEN params.bounds
                  ELSE Repeat(DefaultBound, param_count)
    IN  IF Len(bounds) # param_count THEN Repeat(DefaultBound, param_count) ELSE bounds

\* x0 = params.get('x0', [1.0] * param_count), reset when the length is wrong
x0_used(params, param_count) ==
    LET x0 == IF params.has_x0 THEN params.x0 ELSE Repeat(DefaultGuess, param_count)
    IN  IF Len(x0) # param_count THEN Repeat(DefaultGuess, param_count) ELSE x0

NotCalled ==
    [entry |-> "", objective |-> "", passed_bounds |-> <<>>, passed_x0 |-> <<>>,
     evals |-> 0, raised |-> FALSE, exc |-> "", x |-> <<>>, value |-> Fin(0)]

\* the candidate an optimizer evaluates: of the dimension of the bounds or of
\* the initial guess it was handed
candidate(bounds, x0, opt) ==
    IF Len(bounds) > 0 \/ Len(x0) = 0
    THEN [i \in 1..Len(bounds) |->
             Fin(IF opt.at = "low" THEN bounds[i][1] ELSE bounds[i][1] + 1)]
    ELSE [i \in 1..Len(x0) |-> IF opt.at = "low" THEN x0[i] ELSE FAdd(x0[i], Fin(1))]

\* the evaluation of the objective the routine built, as the optimizer sees it
of_vector(v) == [raised |-> v.raised, exc |-> v.exc, value |-> Fin(0)]

objective_value(objective, function, x_data, y_data, dtype, params, build) ==
    IF objective = "scalar"
    THEN [raised |-> FALSE, exc |-> "",
          value |-> residual_func(function, x_data, y_data, params)]
    ELSE of_vector(residual_array(function, x_data, y_data, dtype, params, build))

optimizer_result(called, opt, x, v) ==
    IF opt.at = "fails"
    THEN [called EXCEPT !.raised = TRUE, !.exc = "ValueError"]
    ELSE IF v.raised
    THEN [called EXCEPT !.evals = 1, !.raised = TRUE, !.exc = v.exc]
    ELSE [called EXCEPT !.evals = 1, !.x = x, !.value = v.value]

\* A scipy.optimize entry point, an opaque collaborator.  It either raises, or
\* evaluates the objective on a candidate of the dimension of the bounds or of
\* the initial guess it was handed and returns a result.x of that dimension.
\* An exception that escapes the objective escapes the optimizer.
optimize(entry, objective, function, x_data, y_data, dtype, bounds, x0, opt) ==
    optimizer_result(
        [NotCalled EXCEPT !.entry = entry, !.objective = objective,
                          !.passed_bounds = bounds, !.passed_x0 = x0],
        opt, candidate(bounds, x0, opt),
        objective_value(objective, function, x_data, y_data, dtype,
                        candidate(bounds, x0, opt), opt.build))

differential_evolution(function, x_data, y_data, dtype, params, opt) ==
    LET param_count == routine_param_count(params.function_name)
        bounds == bounds_used(params, param_count)
    IN  optimize("differential_evolution", "scalar", function, x_data, y_data, dtype,
                 bounds, <<>>, opt)

basin_hopping(function, x_data, y_data, dtype, params, opt) ==
    LET param_count == routine_param_count(params.function_name)
        x0 == x0_used(params, param_count)
    IN  optimize("basinhopping", "scalar", function, x_data, y_data, dtype,
                 <<>>, x0, opt)

shgo(function, x_data, y_data, dtype, params, opt) ==
    LET param_count == routine_param_count(params.function_name)
        bounds == bounds_used(params, param_count)
    IN  optimize("shgo", "scalar", function, x_data, y_data, dtype, bounds, <<>>, opt)

dual_annealing(function, x_data, y_data, dtype, params, opt) ==
    LET param_count == routine_param_count(params.function_name)
        bounds == bounds_used(params, param_count)
    IN  optimize("dual_annealing", "scalar", function, x_data, y_data, dtype,
                 bounds, <<>>, opt)

\* least_squares handing the optimizer the scalar objective
least_squares_scalar(function, x_data, y_data, dtype, params, opt) ==
    LET param_count == routine_param_count(params.function_name)
        x0 == x0_used(params, param_count)
    IN  optimize("least_squares", "scalar", function, x_data, y_data, dtype,
                 <<>>, x0, opt)

least_squares(function, x_data, y_data, dtype, params, opt) ==
    LET param_count == routine_param_count(params.function_name)
        x0 == x0_used(params, param_count)
    IN  optimize("least_squares", "vector", function, x_data, y_data, dtype,
                 <<>>, x0, opt)

\* self.algorithms[algorithm_name](function, x_data, y_data, params)
algorithms(algorithm_name, function, x_data, y_data, dtype, params, opt) ==
    CASE algorithm_name = "Differential Evolution" ->
            differential_evolution(function, x_data, y_data, dtype, params, opt)
      [] algorithm_name = "Basin Hopping" ->
            basin_hopping(function, x_data, y_data, dtype, params, opt)
      [] algorithm_name = "SHGO" -> shgo(function, x_data, y_data, dtype, params, opt)
      [] algorithm_name = "Dual Annealing" ->
            dual_annealing(function, x_data, y_data, dtype, params, opt)
      [] OTHER -> least_squares(function, x_data, y_data, dtype, params, opt)

\* the function_info run_fitting resolves: the built-in registry first, then a
\* CustomFunctionManager() constructed for the call, which reads functions.json
resolve_function_info(function_name, f) ==
    LET builtin == ModelsGetFunctionInfo(function_name)
        custom == get_function_info(load_functions(f), function_name)
    IN  IF ~IsNone(builtin) THEN builtin.param_count ELSE custom.param_count

\* a dispatch that swallows the exception of the routine
dispatched_caught(param_count, r) ==
    [outcome |-> "returned", exc |-> "", param_count |-> param_count, call |-> r]

\* return self.algorithms[algorithm_name](...): what the routine did
dispatched(param_count, r) ==
    [outcome |-> IF r.raised THEN "raised" ELSE "returned",
     exc |-> r.exc, param_count |-> param_count, call |-> r]

\* if not function_info: raise ValueError(...), else the dispatch
checked(param_count, r) ==
    IF param_count = -1
    THEN [outcome |-> "raised", exc |-> "Function information not found",
          param_count |-> -1, call |-> NotCalled]
    ELSE dispatched(param_count, r)

\* run_fitting that does not check the function name
run_fitting_unchecked(algorithm_name, function, x_data, y_data, dtype, params, f, opt) ==
    IF algorithm_name \notin Algorithms
    THEN [outcome |-> "raised", exc |-> "Unknown algorithm", param_count |-> -1,
          call |-> NotCalled]
    ELSE dispatched(resolve_function_info(params.function_name, f),
                    algorithms(algorithm_name, function, x_data, y_data, dtype, params, opt))

\* run_fitting(algorithm_name, function, x_data, y_data, params)
run_fitting(algorithm_name, function, x_data, y_data, dtype, params, f, opt) ==
    IF algorithm_name \notin Algorithms
    THEN [outcome |-> "raised", exc |-> "Unknown algorithm", param_count |-> -1,
          call |-> NotCalled]
    ELSE checked(resolve_function_info(params.function_name, f),
                 algorithms(algorithm_name, function, x_data, y_data, dtype, params, opt))

(***************************************************************************)
(* Fitting requests.                                                       *)
(***************************************************************************)
\* the i-th bound and the i-th initial guess a caller supplies, all different
\* from the defaults
UserBounds(n) == [i \in 1..n |-> <<-i, i>>]
UserGuess(n) == [i \in 1..n |-> Fin(i + 1)]

UsesBounds(algorithm_name) ==
    algorithm_name \in {"Differential Evolution", "SHGO", "Dual Annealing"}

\* algorithm_params as a caller builds it: bounds for the bounded algorithms,
\* x0 for the others, or neither (supplied = -1)
AlgorithmParams(algorithm_name, function_name, supplied) ==
    [function_name |-> function_name,
     has_bounds |-> supplied >= 0 /\ UsesBounds(algorithm_name),
     bounds |-> IF supplied >= 0 /\ UsesBounds(algorithm_name)
                THEN UserBounds(supplied) ELSE <<>>,
     has_x0 |-> supplied >= 0 /\ ~UsesBounds(algorithm_name),
     x0 |-> IF supplied >= 0 /\ ~UsesBounds(algorithm_name)
            THEN UserGuess(supplied) ELSE <<>>]

\* the evaluator a caller passes for a name: the built-in, else the custom one
ResolveFunction(cat, function_name) ==
    IF function_name \in Builtins
    THEN ModelsGetFunction(function_name)
    ELSE get_function(cat, function_name)

RECURSIVE AfterAdds(_)
\* the manager's state after a sequence of successful add_function calls
AfterAdds(calls) ==
    IF Len(calls) = 0
    THEN [value |-> TRUE, cat |-> <<>>, file |-> NoFile]
    ELSE LET before == AfterAdds(SubSeq(calls, 1, Len(calls) - 1))
             c == calls[Len(calls)]
         IN  add_function(before.cat, before.file, c[1], c[2], c[3], "ok")

FitCatalogs ==
    {AfterAdds(<<>>),
     AfterAdds(<<<<"f", "a*x+b", P_ab>>>>),
     AfterAdds(<<<<"f", "a*x+b", P_ab>>, <<"g", "a*x**b+c", P_abc>>>>),
     AfterAdds(<<<<"f", "a*x", P_a>>>>)}

FitNames == Builtins \cup {"f", "g", "h"}
AlgorithmNames == Algorithms \cup {"Nelder-Mead"}
OptimizerBehaviours == [at : {"fails", "low", "inside"}, build : Builds]

FitDatasets ==
    {[has |-> TRUE, x_data |-> [i \in 1..MaxData |-> Fin(i - 1)],
      y_data |-> [i \in 1..MaxData |-> Fin(2 * i + 1)], dtype |-> t,
      has_true |-> FALSE, true_params |-> <<>>] :
        t \in {"float64", "int64"}}

Request(algorithm_name, function_name, supplied, opt) ==
    [outcome |-> "pending", algorithm_name |-> algorithm_name,
     function_name |-> function_name, supplied |-> supplied, opt |-> opt,
     exc |-> "", param_count |-> -1, call |-> NotCalled]

\* the request with what run_fitting did
Completed(request, r) ==
    [request EXCEPT !.outcome = r.outcome, !.exc = r.exc,
                    !.param_count = r.param_count, !.call = r.call]

\* one call of run_fitting
RunFitting ==
    /\ fit.outcome = "pending"
    /\ fit' = Completed(fit,
                run_fitting(fit.algorithm_name,
                            ResolveFunction(custom_functions, fit.function_name),
                            data.x_data, data.y_data, data.dtype,
                            AlgorithmParams(fit.algorithm_name, fit.function_name,
                                            fit.supplied),
                            file, fit.opt))
    /\ UNCHANGED <<registry, custom_functions, file, ret, data, obj>>

InitFit ==
    /\ \E c \in FitCatalogs : custom_functions = c.cat /\ file = c.file
    /\ ret = NoCall
    /\ registry = FunctionModelsInit
    /\ data \in FitDatasets
    /\ fit \in {Request(a, n, s, o) : a \in AlgorithmNames, n \in FitNames,
                                       s \in -1..MaxSupplied, o \in OptimizerBehaviours}
    /\ obj = NoObj

NextFit == RunFitting

SpecFit == InitFit /\ [][NextFit]_vars

(***************************************************************************)
(* Claims about the custom function manager.                               *)
(***************************************************************************)
InitValues(params) == [i \in 1..Len(params) |-> params[i].init_value]

TestPoint == Fin(1)

\* C1: when add_function(name, expression, params) has returned True, the
\* catalog rebuilt from functions.json gives, for that name, the expression and
\* the params that were added, param_count = len(params), and an evaluator
\* that agrees with the one in memory at the test point x = 1.0 with the
\* initial parameter values.
C1_RoundTrip ==
    (ret.op = "add" /\ ret.value) =>
        LET reloaded == load_functions(file)
            info == get_function_info(reloaded, ret.name)
            before == get_function(custom_functions, ret.name)
            after == get_function(reloaded, ret.name)
        IN  /\ HasKey(reloaded, ret.name)
            /\ info.expression = ret.expression
            /\ info.params = ret.params
            /\ info.param_count = Len(ret.params)
            /\ CallFunction(after, TestPoint, InitValues(ret.params))
                 = CallFunction(before, TestPoint, InitValues(ret.params))

\* a second function is added to a catalog that already holds one, and the
\* evaluator gives a number at the test point
C1_Witness ==
    /\ ret.op = "add" /\ ret.value
    /\ Len(custom_functions) = 2
    /\ Len(ret.params) = 2
    /\ CallFunction(get_function(load_functions(file), ret.name), TestPoint,
                    InitValues(ret.params)) = Fin(5)

\* the expression cannot be parsed or evaluated at x = 1.0 with the initial values
BadExpression(expression, params) ==
    IsErr(custom_function(expression, [i \in 1..Len(params) |-> params[i].name],
                          TestPoint, InitValues(params)))

\* C9: add_function with an expression that cannot be parsed or evaluated
\* returns False and leaves the catalog and functions.json as they were.
C9_BadExpressionRejected ==
    [][(ret'.op = "add" /\ CanCreate(ret'.params)
          /\ BadExpression(ret'.expression, ret'.params))
       => (ret'.value = FALSE /\ custom_functions' = custom_functions /\ file' = file)]_vars

\* C10: remove_function returns True exactly when the name was in the catalog
\* before the call, also when the write of functions.json fails.
C10_RemoveReturnsWhetherRemoved ==
    ret.op = "remove" => (ret.value <=> ret.had)

\* C10 as amended: remove_function returns True exactly when the name was in
\* the catalog and functions.json was then written; an absent name gives False
\* with catalog and file unchanged; a present name is removed from memory even
\* when the write fails and False is returned.
C10_RemoveReturnsSaveResult ==
    [][ret'.op = "remove" =>
        LET present == HasKey(custom_functions, ret'.name)
        IN  /\ ret'.value <=> (present /\ ret'.io = "ok" /\ Serialisable(custom_functions'))
            /\ ~present => (custom_functions' = custom_functions /\ file' = file)
            /\ present => (~HasKey(custom_functions', ret'.name)
                            /\ Len(custom_functions') = Len(custom_functions) - 1)
            /\ ret'.value => load_functions(file') = custom_functions']_vars

\* a function that was in the catalog is removed while the write fails
C10_Witness ==
    /\ ret.op = "remove" /\ ret.had /\ ~ret.value
    /\ ret.io = "write_fails"
    /\ ~HasKey(custom_functions, ret.name)
    /\ Len(custom_functions) = 1

(***************************************************************************)
(* Claims about the fitting dispatcher.                                    *)
(***************************************************************************)
Done == fit.outcome \in {"raised", "returned"}

\* the name is in the built-in registry or in the catalog read from functions.json
Resolves == fit.function_name \in Builtins \/ HasKey(load_functions(file), fit.function_name)

OptimizerReached == fit.call.entry # "" \/ fit.call.evals > 0

\* what the request supplied, cut or padded to n entries
Coerced(list, n, fill) == [i \in 1..n |-> IF i <= Len(list) THEN list[i] ELSE fill]

\* C2: run_fitting reaches an optimizer only if the algorithm name is registered
\* and the function name resolves in the built-in or the custom catalog;
\* otherwise it raises, the unknown algorithm first, and neither an optimizer
\* entry point nor the objective is reached.
C2_OptimizerOnlyForKnownNames ==
    Done =>
        /\ OptimizerReached => (fit.algorithm_name \in Algorithms /\ Resolves)
        /\ fit.algorithm_name \notin Algorithms =>
              (fit.outcome = "raised" /\ fit.exc = "Unknown algorithm" /\ ~OptimizerReached)
        /\ (fit.algorithm_name \in Algorithms /\ ~Resolves) =>
              (fit.outcome = "raised" /\ fit.exc = "Function information not found"
                 /\ ~OptimizerReached)

\* a registered algorithm is asked to fit a name that is in neither catalog,
\* while the custom catalog holds other functions
C2_Witness ==
    /\ fit.outcome = "raised"
    /\ fit.algorithm_name = "Least Squares"
    /\ fit.function_name = "h"
    /\ Len(custom_functions) = 2
    /\ fit.exc = "Function information not found"
    /\ fit.call.entry = ""

\* C3: for every function name run_fitting resolves, with declared parameter
\* count n, the bounds Differential Evolution, SHGO and Dual Annealing hand to
\* the optimizer have length n, whatever the length of the supplied list.
C3_BoundsHaveDeclaredLength ==
    (Done /\ fit.call.entry # "" /\ UsesBounds(fit.algorithm_name)) =>
        Len(fit.call.passed_bounds) = fit.param_count

RoutineCount == IF fit.function_name \in Builtins
                THEN BuiltinParamCount(fit.function_name)
                ELSE 3

C5_ResultHasDeclaredLength ==
    fit.outcome = "returned" => Len(fit.call.x) = fit.param_count

(***************************************************************************)
(* Claims about the objectives.                                            *)
(***************************************************************************)
\* C6: when the evaluation of the target raises for a candidate, the scalar
\* objective returns positive infinity and the exception does not escape.
C6_RaisingEvaluatorGivesInf ==
    (obj.kind = "scalar" /\ obj.y_pred.raised) => (obj.value = Inf /\ ~obj.escaped)

\* a custom expression refers to an unknown name and the objective is inf
C6_Witness ==
    /\ obj.kind = "scalar"
    /\ obj.function.kind = "custom"
    /\ obj.y_pred.raised /\ obj.y_pred.exc = "NameError"
    /\ Len(obj.params) = 2
    /\ obj.value = Inf

NonFiniteOutput ==
    /\ ~obj.y_pred.raised
    /\ \E i \in 1..Len(obj.y_pred.values) : ~IsFinite(obj.y_pred.values[i])

\* C7: when the evaluator returns an output with a non-finite value, the
\* scalar objective returns the sentinel (positive infinity), never NaN.
C7_NonFiniteOutputGivesSentinel ==
    (obj.kind = "scalar" /\ NonFiniteOutput) => obj.value = Inf

\* C8: when the evaluator raises, the Least Squares residual is an array of
\* sentinel values as long as the data, for y data of any element type, and
\* nothing is raised.
C8_RaisingEvaluatorGivesSentinelArray ==
    (obj.kind = "vector" /\ obj.y_pred.raised) =>
        /\ ~obj.escaped
        /\ Len(obj.values) = Len(data.y_data)
        /\ \A i \in 1..Len(obj.values) : obj.values[i] \in {Inf, IntMin}

(***************************************************************************)
(* Loading a functions.json that save_functions did not write.             *)
(***************************************************************************)
DocNames == {"f", "g", "h"}
EntryKinds == {"good", "no_expression", "no_params"}

\* one name/value pair of the JSON object, with the keys its value has
DocEntry(name, kind) ==
    [name |-> name,
     keys |-> CASE kind = "good" -> {"expression", "params"}
                [] kind = "no_expression" -> {"params"}
                [] OTHER -> {"expression"},
     expression |-> IF kind = "no_expression" THEN Absent ELSE "a*x+b",
     params |-> IF kind = "no_params" THEN <<>> ELSE P_ab]

\* JSON objects of at most MaxDoc pairs with different names, in file order
Documents ==
    UNION {{[i \in 1..n |-> DocEntry(order[i], kinds[i])] :
               order \in {o \in [1..n -> DocNames] :
                             \A i, j \in 1..n : o[i] = o[j] => i = j},
               kinds \in [1..n -> EntryKinds]} : n \in 0..MaxDoc}

LoadFiles == {NoFile, Corrupt} \cup {[kind |-> "json", doc |-> d] : d \in Documents}

\* what self.custom_functions holds when load_functions is called
PriorCatalogs == {c.cat : c \in FitCatalogs}

InitLoad ==
    /\ custom_functions \in PriorCatalogs
    /\ file \in LoadFiles
    /\ ret = NoCall
    /\ registry = FunctionModelsInit
    /\ data = NoData
    /\ fit = NoFit
    /\ obj = NoObj

NextLoad == LoadFunctions

SpecLoad == InitLoad /\ [][NextLoad]_vars

(***************************************************************************)
(* Claims about load_functions.                                            *)
(***************************************************************************)
HasBothKeys(e) == {"expression", "params"} \subseteq e.keys

CatalogNames(cat) == {cat[i].name : i \in 1..Len(cat)}

\* C11: after load_functions has read a document that mixes well-formed
\* entries with entries missing 'expression' or 'params', the catalog holds
\* exactly the well-formed entries, wherever the malformed ones stand.
C11_MalformedEntriesSkipped ==
    (ret.op = "load" /\ file.kind = "json") =>
        /\ CatalogNames(custom_functions)
             = {file.doc[i].name : i \in {j \in 1..Len(file.doc) : HasBothKeys(file.doc[j])}}
        /\ \A i \in 1..Len(file.doc) :
              HasBothKeys(file.doc[i]) =>
                  get_function_info(custom_functions, file.doc[i].name).expression
                     = file.doc[i].expression

\* C12: when functions.json is missing or is not parseable JSON, the catalog
\* is empty after load_functions, whatever it held before, and load_functions
\* leaves the file as it was.
C12_LoadDegradesToEmpty ==
    [][ret'.op = "load" =>
        /\ file' = file
        /\ file.kind # "json" => custom_functions' = <<>>]_vars

\* a manager that held entries has loaded from an unparseable file
C12_Witness ==
    /\ ret.op = "load" /\ ret.had
    /\ file.kind = "corrupt"
    /\ custom_functions = <<>>

(***************************************************************************)
(* Calls of a custom evaluator.                                            *)
(***************************************************************************)
EvalExpressions == {"a*x+b", "a*x", "a*log(x)", "a*x+q", "a*np.abs(x)", "a*abs(x)"}
EvalParamNames == {<<>>, <<"a">>, <<"a", "b">>, <<"a", "a">>, <<"x", "a">>,
                   <<"a", "b", "c">>}
ArgValues == {Fin(2), Fin(3)}
EvalArgs == UNION {[1..n -> ArgValues] : n \in 0..MaxParams}

\* a call custom_function(x, *args) that is about to be made
PendingCall(expression, param_names, x, args) ==
    [kind |-> "call", expression |-> expression, param_names |-> param_names,
     x |-> x, args |-> args, namespace |-> <<>>, result |-> Fin(0)]

Called(o, namespace, result) ==
    [o EXCEPT !.kind = "called", !.namespace = namespace, !.result = result]

\* one call of the evaluator
Evaluate ==
    /\ obj.kind = "call"
    /\ obj' = Called(obj, custom_namespace(obj.param_names, obj.x, obj.args),
                     custom_function(obj.expression, obj.param_names, obj.x, obj.args))
    /\ UNCHANGED <<registry, custom_functions, file, ret, data, fit>>

InitEval ==
    /\ custom_functions = <<>>
    /\ file = NoFile
    /\ ret = NoCall
    /\ registry = FunctionModelsInit
    /\ data = NoData
    /\ fit = NoFit
    /\ obj \in {PendingCall(e, n, x, a) : e \in EvalExpressions, n \in EvalParamNames,
                                           x \in XValues, a \in EvalArgs}

NextEval == Evaluate

SpecEval == InitEval /\ [][NextEval]_vars

(***************************************************************************)
(* Claims about the custom evaluator.                                      *)
(***************************************************************************)
RECURSIVE Referenced(_)
\* the names an expression refers to
Referenced(node) ==
    CASE node[1] = "name" -> {node[2]}
      [] node[1] = "attr" -> Referenced(node[2])
      [] OTHER -> Referenced(node[2]) \cup Referenced(node[3])

Declared(param_names) == {param_names[i] : i \in 1..Len(param_names)}

\* C13: an expression that refers to a name other than x, the declared
\* parameter names and sin, cos, exp, log (the module handle np, a builtin,
\* an undeclared parameter) fails to evaluate.
C13_OnlyAllowListedNamesResolve ==
    (obj.kind = "called"
       /\ ~(Referenced(Parse(obj.expression))
              \subseteq {"x"} \cup Declared(obj.param_names) \cup {"sin", "cos", "exp", "log"}))
    => IsErr(obj.result)

\* C14: the evaluator binds args[i] to the i-th declared name for
\* i < min(n, len(args)), a later binding of the same name replacing an
\* earlier one; with fewer arguments than names only the first len(args)
\* names are bound and binding alone raises nothing; extra arguments bind
\* nothing; x is the input even when a parameter is named x.
C14_PositionalBinding ==
    obj.kind = "called" =>
        LET names == obj.param_names
            m == Min(Len(names), Len(obj.args))
            ns == obj.namespace
        IN  /\ ns["x"] = obj.x
            /\ \A i \in 1..m :
                  (names[i] # "x" /\ \A j \in (i + 1)..m : names[j] # names[i])
                     => ns[names[i]] = obj.args[i]
            /\ DOMAIN ns = NamespaceBase \cup {"x"} \cup {names[i] : i \in 1..m}
            /\ Referenced(Parse(obj.expression)) \subseteq (DOMAIN ns \ {"np"})
                  => IsNum(obj.result)

\* a parameter is named x, three arguments are passed for two names, and the
\* expression a*x is evaluated with the input for x
C14_Witness ==
    /\ obj.kind = "called"
    /\ obj.param_names = <<"x", "a">>
    /\ obj.args = <<Fin(2), Fin(3), Fin(3)>>
    /\ obj.x = Fin(-1)
    /\ obj.expression = "a*x"
    /\ obj.result = Fin(-3)

(***************************************************************************)
(* The registry as an object: FunctionModels with add_custom_function.     *)
(***************************************************************************)
\* list(self.functions.keys())
models_get_function_names(reg) == [i \in 1..Len(reg.functions) |-> reg.functions[i].name]

\* self.functions.get(name)
models_get_function(reg, name) ==
    IF HasKey(reg.functions, name)
    THEN reg.functions[IndexOf(reg.functions, name)].function
    ELSE NoFunction

\* self.function_info.get(name)
models_get_function_info(reg, name) ==
    IF HasKey(reg.function_info, name)
    THEN reg.function_info[IndexOf(reg.function_info, name)].info
    ELSE None

\* add_custom_function that records a param_count of 3 whatever params holds
add_custom_function_three(reg, name, func, equation, params) ==
    [functions |-> Put(reg.functions, [name |-> name, function |-> func]),
     function_info |->
        Put(reg.function_info,
            [name |-> name,
             info |-> [equation |-> equation, params |-> params, param_count |-> 3]])]

\* add_custom_function that moves an overwritten name to the end of the tables
add_custom_function_moved(reg, name, func, equation, params) ==
    [functions |-> Append(SelectSeq(reg.functions, LAMBDA e : e.name # name),
                          [name |-> name, function |-> func]),
     function_info |->
        Append(SelectSeq(reg.function_info, LAMBDA e : e.name # name),
               [name |-> name,
                info |-> [equation |-> equation, params |-> params,
                          param_count |-> Len(params)]])]

\* add_custom_function(name, func, equation, params)
add_custom_function(reg, name, func, equation, params) ==
    [functions |-> Put(reg.functions, [name |-> name, function |-> func]),
     function_info |->
        Put(reg.function_info,
            [name |-> name,
             info |-> [equation |-> equation, params |-> params,
                       param_count |-> Len(params)]])]

RegistryNames == {"f", "g", "Linear"}
RegistryFunctions == {create_function_from_string("a*x", P_a),
                      create_function_from_string("a*x+b", P_ab)}
RegistryEquations == {"a*x", "a*x+b"}
RegistryParams == {<<"a">>, <<"a", "b">>}

\* one call of add_custom_function on the main window's registry
AddCustomFunction(name, func, equation, params) ==
    /\ registry' = add_custom_function(registry, name, func, equation, params)
    /\ ret' = [NoCall EXCEPT !.op = "add_custom_function", !.name = name,
                             !.expression = equation, !.params = params,
                             !.had = HasKey(registry.functions, name)]
    /\ UNCHANGED <<custom_functions, file, data, fit, obj>>

InitRegistry ==
    /\ custom_functions = <<>>
    /\ file = NoFile
    /\ ret = NoCall
    /\ registry = FunctionModelsInit
    /\ data = NoData
    /\ fit = NoFit
    /\ obj = NoObj

NextRegistry ==
    \E name \in RegistryNames, func \in RegistryFunctions,
       equation \in RegistryEquations, params \in RegistryParams :
          AddCustomFunction(name, func, equation, params)

SpecRegistry == InitRegistry /\ [][NextRegistry]_vars

(***************************************************************************)
(* Claims about the registry.                                              *)
(***************************************************************************)
\* the parameter counts the seven built-ins are documented with
DocumentedCount(name) ==
    CASE name = "Linear" -> 2
      [] name = "Quadratic" -> 3
      [] name = "Cubic" -> 4
      [] name = "Power Law" -> 3
      [] name = "Exponential" -> 3
      [] name = "Double Power Law" -> 4
      [] name = "Triple Power Law" -> 6

Ones(k) == [i \in 1..k |-> Fin(1)]

\* C15: in every state reached by add_custom_function calls, every registered
\* name has param_count = len(params) in its info; and each of the seven
\* built-in evaluators is registered at construction with its documented
\* param_count and accepts exactly that many parameter values after x.
C15_ArityConsistent ==
    /\ \A i \in 1..Len(registry.function_info) :
          LET info == models_get_function_info(registry, registry.function_info[i].name)
          IN  info.param_count = Len(info.params)
    /\ \A name \in Builtins :
          /\ models_get_function_info(FunctionModelsInit, name).param_count
               = DocumentedCount(name)
          /\ \A k \in 0..7 :
                IsNum(CallFunction(models_get_function(FunctionModelsInit, name),
                                   Fin(1), Ones(k)))
                   <=> k = DocumentedCount(name)

\* two custom functions are registered and a built-in name was overwritten
\* with a one-parameter function
C15_Witness ==
    /\ Len(registry.functions) = 9
    /\ models_get_function_info(registry, "Linear").param_count = 1
    /\ models_get_function_info(registry, "g").param_count = 2
    /\ ret.op = "add_custom_function"

\* C16: after any add_custom_function call the name maps to the evaluator and
\* info of that call, every other name keeps its own, a name has an evaluator
\* iff it has an info, and get_function_names lists each name once, the seven
\* built-ins first, a new name at the end and an overwritten one in place.
C16_LastWriteWins ==
    [][ret'.op = "add_custom_function" =>
        LET names == models_get_function_names(registry)
            after == models_get_function_names(registry')
        IN  /\ models_get_function(registry', ret'.name).kind = "custom"
            /\ models_get_function_info(registry', ret'.name)
                 = [equation |-> ret'.expression, params |-> ret'.params,
                    param_count |-> Len(ret'.params)]
            /\ \A i \in 1..Len(names) :
                  names[i] # ret'.name =>
                     /\ models_get_function(registry', names[i])
                          = models_get_function(registry, names[i])
                     /\ models_get_function_info(registry', names[i])
                          = models_get_function_info(registry, names[i])
            /\ after = IF ret'.had THEN names ELSE Append(names, ret'.name)
            /\ SubSeq(after, 1, 7) = BuiltinNames
            /\ \A i, j \in 1..Len(after) : after[i] = after[j] => i = j
            /\ \A nm \in RegistryNames \cup Builtins \cup {"h"} :
                  (models_get_function(registry', nm) = NoFunction)
                     <=> IsNone(models_get_function_info(registry', nm))]_vars

\* Linear was overwritten after f and g were registered: nine names, Linear first
C16_Witness ==
    /\ ret.op = "add_custom_function" /\ ret.name = "Linear" /\ ret.had
    /\ models_get_function_names(registry)
         = BuiltinNames \o <<"f", "g">>
    /\ models_get_function(registry, "Linear").kind = "custom"

(***************************************************************************)
(* The data manager: DataManager.                                          *)
(***************************************************************************)
\* has_data(): x_data is not None and y_data is not None
has_data(d) == d.has

\* set_data that keeps the true parameters of the data it replaces
set_data_keeps(d, x, y, dtype) ==
    [has |-> TRUE, x_data |-> x, y_data |-> y, dtype |-> dtype,
     has_true |-> d.has_true, true_params |-> d.true_params]

\* set_data(x, y): np.array(x), np.array(y), true_params = None
set_data(d, x, y, dtype) ==
    [has |-> TRUE, x_data |-> x, y_data |-> y, dtype |-> dtype,
     has_true |-> FALSE, true_params |-> NoTrueParams]

\* np.linspace(0.1, 10, num_points): strictly positive, increasing; a negative
\* num_points is a ValueError
linspace(num_points) == [i \in 1..num_points |-> Fin(i)]

\* param_count = function_info['param_count'] if function_info else 3, with
\* function_info looked up in a fresh FunctionModels()
synthetic_param_count(function_name) ==
    IF IsNone(ModelsGetFunctionInfo(function_name))
    THEN 3
    ELSE ModelsGetFunctionInfo(function_name).param_count

\* the hand-tuned true parameters, rounded half up to the integers of the
\* float model, and [1.0] * param_count for any other name
synthetic_true_params(function_name) ==
    CASE function_name = "Linear" -> <<Fin(3), Fin(1)>>
      [] function_name = "Quadratic" -> <<Fin(1), Fin(2), Fin(1)>>
      [] function_name = "Cubic" -> <<Fin(1), Fin(1), Fin(2), Fin(1)>>
      [] function_name = "Power Law" -> <<Fin(2), Fin(1), Fin(1)>>
      [] function_name = "Exponential" -> <<Fin(2), Fin(1), Fin(1)>>
      [] function_name = "Double Power Law" -> <<Fin(2), Fin(1), Fin(1), Fin(2)>>
      [] function_name = "Triple Power Law" ->
            <<Fin(2), Fin(1), Fin(1), Fin(2), Fin(1), Fin(2)>>
      [] OTHER -> [i \in 1..synthetic_param_count(function_name) |-> Fin(1)]

AllFinite(values) == \A i \in 1..Len(values) : IsFinite(values[i])

\* np.max(y_clean) - np.min(y_clean) = 0, for finite values
Flat(values) == \A i, j \in 1..Len(values) : values[i] = values[j]

\* y_clean + np.random.normal(0, noise_level * y_range, size=num_points):
\* no noise on a flat curve, nan when the range is not a number
add_noise(y_clean, noise) ==
    [i \in 1..Len(y_clean) |->
        IF ~AllFinite(y_clean) THEN NaN
        ELSE IF Flat(y_clean) THEN y_clean[i]
        ELSE FAdd(y_clean[i], Fin(noise[i]))]

DataFailed(d, exc) ==
    [raised |-> TRUE, exc |-> exc, data |-> d, x |-> <<>>, y |-> <<>>, true_params |-> <<>>]

\* the rest of generate_synthetic_data once the clean curve was evaluated:
\* np.max of an empty array is a ValueError; the three attributes are
\* assigned last
generated(d, num_points, x, y_clean, true_params, noise) ==
    IF num_points < 0 THEN DataFailed(d, "ValueError")
    ELSE IF y_clean.raised THEN DataFailed(d, y_clean.exc)
    ELSE IF num_points = 0 THEN DataFailed(d, "ValueError")
    ELSE [raised |-> FALSE, exc |-> "",
          data |-> [has |-> TRUE, x_data |-> x, y_data |-> add_noise(y_clean.values, noise),
                    dtype |-> "float64", has_true |-> TRUE, true_params |-> true_params],
          x |-> x, y |-> add_noise(y_clean.values, noise), true_params |-> true_params]

\* generate_synthetic_data(function_name, function, num_points, noise_level)
generate_synthetic_data(d, function_name, function, num_points, noise) ==
    generated(d, num_points, linspace(num_points),
              CallOnArray(function, linspace(num_points),
                          synthetic_true_params(function_name)),
              synthetic_true_params(function_name), noise)

\* the custom catalog the main window resolves names in
DataCatalog ==
    AfterAdds(<<<<"f", "a*x+b", P_ab>>, <<"g", "a*x+q", P_ab>>, <<"k", "a*x", P_a>>>>)

DataNames == Builtins \cup {"f", "g", "k"}

\* arrays a caller hands to set_data: a column of a CSV file may be empty, and
\* set_data itself accepts arrays of different lengths
SetDataX == {[i \in 1..n |-> Fin(i)] : n \in 0..MaxData}
SetDataY == UNION {[1..n -> {Fin(0), Fin(1)}] : n \in 0..MaxData}
Noises == UNION {[1..n -> {-1, 1}] : n \in 0..MaxData}

NoDataCall ==
    [op |-> "init", raised |-> FALSE, completed |-> "none",
     returned |-> <<<<>>, <<>>, <<>>>>, function_name |-> ""]

\* what is remembered of a call: the last call that completed and the triple
\* the last completed generate_synthetic_data returned
AfterGenerate(last, function_name, r) ==
    [op |-> "generate_synthetic_data", raised |-> r.raised,
     completed |-> IF r.raised THEN last.completed ELSE "generate_synthetic_data",
     returned |-> IF r.raised THEN last.returned ELSE <<r.x, r.y, r.true_params>>,
     function_name |-> function_name]

SetData(x, y, dtype) ==
    /\ data' = set_data(data, x, y, dtype)
    /\ ret' = [NoDataCall EXCEPT !.op = "set_data", !.completed = "set_data"]
    /\ UNCHANGED <<registry, custom_functions, file, fit, obj>>

GenerateSyntheticData(function_name, num_points, noise) ==
    /\ Len(noise) = Max(num_points, 0)
    /\ data' = generate_synthetic_data(data, function_name,
                                       ResolveFunction(custom_functions, function_name),
                                       num_points, noise).data
    /\ ret' = AfterGenerate(ret, function_name,
                  generate_synthetic_data(data, function_name,
                                          ResolveFunction(custom_functions, function_name),
                                          num_points, noise))
    /\ UNCHANGED <<registry, custom_functions, file, fit, obj>>

InitData ==
    /\ custom_functions = DataCatalog.cat
    /\ file = DataCatalog.file
    /\ ret = NoDataCall
    /\ registry = FunctionModelsInit
    /\ data = NoData
    /\ fit = NoFit
    /\ obj = NoObj

NextData ==
    \/ \E x \in SetDataX, y \in SetDataY, dtype \in {"float64", "int64"} :
          SetData(x, y, dtype)
    \/ \E function_name \in DataNames, num_points \in -1..MaxData, noise \in Noises :
          GenerateSyntheticData(function_name, num_points, noise)

SpecData == InitData /\ [][NextData]_vars

(***************************************************************************)
(* Claims about the data manager.                                          *)
(***************************************************************************)
\* C17: true_params is present iff the last call that completed was
\* generate_synthetic_data, and then x_data, y_data and true_params are the
\* triple that call returned; set_data clears true_params; a
\* generate_synthetic_data that raises leaves the three attributes as they were.
C17_TrueParamsTrackSource ==
    [][/\ ret'.op = "set_data" => ~data'.has_true
       /\ (ret'.op = "generate_synthetic_data" /\ ret'.raised) => data' = data
       /\ data'.has_true <=> ret'.completed = "generate_synthetic_data"
       /\ ret'.completed = "generate_synthetic_data" =>
             <<data'.x_data, data'.y_data, data'.true_params>> = ret'.returned]_vars

\* synthetic Linear data is in place and a later generate_synthetic_data for
\* a custom function whose expression names an undeclared parameter has raised
C17_Witness ==
    /\ ret.op = "generate_synthetic_data" /\ ret.raised /\ ret.function_name = "g"
    /\ ret.completed = "generate_synthetic_data"
    /\ data.has_true /\ data.true_params = <<Fin(3), Fin(1)>>
    /\ Len(data.x_data) = 2

\* C18: whenever has_data() is true, x_data and y_data have the same length,
\* and that length is at least 1.
C18_EqualLengths ==
    has_data(data) => (Len(data.x_data) = Len(data.y_data) /\ Len(data.x_data) >= 1)

\* the declared param_count of a name: the built-in's, else the custom one's
DeclaredCount(function_name) ==
    IF function_name \in Builtins
    THEN BuiltinParamCount(function_name)
    ELSE get_function_info(custom_functions, function_name).param_count

\* C19: generate_synthetic_data stores, for a name outside the seven
\* built-ins, true_params of 1.0 repeated n times, n the declared param_count
\* of that function; for a built-in, true_params of the built-in's param_count.
C19_FallbackTrueParams ==
    (ret.op = "generate_synthetic_data" /\ ~ret.raised) =>
        /\ Len(data.true_params) = DeclaredCount(ret.function_name)
        /\ ret.function_name \notin Builtins =>
              data.true_params = [i \in 1..DeclaredCount(ret.function_name) |-> Fin(1)]

(***************************************************************************)
(* Claims about a fitting request that fails.                              *)
(***************************************************************************)
\* C20: when the solver call raises, run_fitting lets the exception reach its
\* caller, and once the request is over the data manager's x_data, y_data and
\* true_params, the built-in registry, the custom catalog and functions.json
\* are what they were before it; no fitted parameters exist.
C20_SolverFailurePropagates ==
    [][fit'.call.raised =>
        /\ fit'.outcome = "raised"
        /\ fit'.exc = fit'.call.exc
        /\ fit'.call.x = <<>>
        /\ data' = data
        /\ registry' = registry
        /\ custom_functions' = custom_functions
        /\ file' = file]_vars

\* Differential Evolution fails on a custom function while the catalog holds two
C20_Witness ==
    /\ fit.outcome = "raised"
    /\ fit.call.raised /\ fit.call.entry = "differential_evolution"
    /\ fit.exc = "ValueError"
    /\ fit.function_name = "g"
    /\ Len(custom_functions) = 2
    /\ data.has

(***************************************************************************)
(* The report: utils/report.py.                                            *)
(***************************************************************************)
MaxReportData == 3

\* the quotient n / d of two floats (d > 0), kept exact
Quotient(n, d) == [k |-> "fin", n |-> n, d |-> d]
One == Quotient(1, 1)
\* a finite number over the sum of squares of rounding errors (about 1e-33),
\* taken from 1
HugeNegative == [k |-> "huge_negative", n |-> 0, d |-> 1]
QNaN == [k |-> "nan", n |-> 0, d |-> 1]
QNInf == [k |-> "ninf", n |-> 0, d |-> 1]

RECURSIVE IntSum(_)
IntSum(s) == IF Len(s) = 0 THEN 0 ELSE s[1] + IntSum(Tail(s))

\* the outcomes of np.mean(y_data) the float sum allows.  Float addition
\* rounds: 0.1 + 0.1 + 0.1 = 0.30000000000000004, a third of which is
\* 0.10000000000000002, while 1.0 + 1.0 + 1.0 = 3.0.  The values of the model
\* stand for floats of their magnitude and carry no low-order bits, so for a
\* column whose sum can round both outcomes are taken; TRUE is a mean that
\* missed.  Zeros add exactly, and so do one, two or four equal floats.
MeanRoundings(y_data) ==
    IF /\ Len(y_data) >= 3
       /\ \E i \in 1..Len(y_data) : y_data[i].v # 0
       /\ ~(Len(y_data) = 4 /\ \A i \in 1..Len(y_data) : y_data[i] = y_data[1])
    THEN {FALSE, TRUE}
    ELSE {FALSE}

\* np.mean(y_data): the sum over the count, and whether the float missed it
np_mean(y_data, rounds) ==
    [sum |-> IntSum([i \in 1..Len(y_data) |-> y_data[i].v]),
     count |-> Len(y_data), off |-> rounds]

\* np.sum((y_data - np.mean(y_data)) ** 2) as num / den; tiny is the sum of
\* the squared rounding errors of a constant column whose mean missed
ss_tot(y_data, mean) ==
    [num |-> IntSum([i \in 1..Len(y_data) |->
                        (mean.count * y_data[i].v - mean.sum)
                      * (mean.count * y_data[i].v - mean.sum)]),
     den |-> mean.count * mean.count,
     tiny |-> mean.off /\ \A i \in 1..Len(y_data) : mean.count * y_data[i].v = mean.sum]

\* ss_tot == 0
IsZero(t) == t.num = 0 /\ ~t.tiny

\* 1 - (ss_res / ss_tot) for ss_tot != 0
one_minus_quotient(res, tot) ==
    IF res.k = "nan" THEN QNaN
    ELSE IF res.k # "fin" THEN QNInf
    ELSE IF tot.tiny THEN (IF res.v = 0 THEN One ELSE HugeNegative)
    ELSE Quotient(tot.num - res.v * tot.den, tot.num)

\* if ss_tot == 0: r_squared = 1, else: r_squared = 1 - (ss_res / ss_tot)
r_squared(res, tot) ==
    IF IsZero(tot) THEN One ELSE one_minus_quotient(res, tot)

\* r > t / 100 on floats: every comparison with nan is False
Above(r, t) ==
    /\ r.k = "fin"
    /\ 100 * r.n > t * r.d

\* the chain of comparisons with >= in place of >
interpret_r_squared_inclusive(r) ==
    IF r.k = "fin" /\ 100 * r.n >= 95 * r.d THEN "Excellent fit"
    ELSE IF r.k = "fin" /\ 100 * r.n >= 90 * r.d THEN "Very good fit"
    ELSE IF r.k = "fin" /\ 100 * r.n >= 80 * r.d THEN "Good fit"
    ELSE IF r.k = "fin" /\ 100 * r.n >= 60 * r.d THEN "Moderate fit"
    ELSE IF r.k = "fin" /\ 100 * r.n >= 30 * r.d THEN "Poor fit"
    ELSE "Very poor fit"

interpret_r_squared(r) ==
    IF Above(r, 95) THEN "Excellent fit"
    ELSE IF Above(r, 90) THEN "Very good fit"
    ELSE IF Above(r, 80) THEN "Good fit"
    ELSE IF Above(r, 60) THEN "Moderate fit"
    ELSE IF Above(r, 30) THEN "Poor fit"
    ELSE "Very poor fit"

\* the rows with true minus fitted
difference_rows_reversed(true_params, params) ==
    [i \in 1..Min(Len(true_params), Len(params)) |->
        [true_val |-> true_params[i], fitted_val |-> params[i],
         diff |-> FSub(true_params[i], params[i])]]

\* for i, (true_val, fitted_val) in enumerate(zip(true_params, params)):
\*     diff = fitted_val - true_val
difference_rows(true_params, params) ==
    [i \in 1..Min(Len(true_params), Len(params)) |->
        [true_val |-> true_params[i], fitted_val |-> params[i],
         diff |-> FSub(params[i], true_params[i])]]

NoReport ==
    [raised |-> FALSE, exc |-> "", ss_tot |-> [num |-> 0, den |-> 1, tiny |-> FALSE],
     ss_res |-> Fin(0), divided |-> FALSE, r_squared |-> One, interpretation |-> "",
     has_rows |-> FALSE, rows |-> <<>>]

\* the report once ss_tot and ss_res are known
report_metrics(params, has_true, true_params, tot, res) ==
    [NoReport EXCEPT !.ss_tot = tot, !.ss_res = res,
                     !.divided = ~IsZero(tot),
                     !.r_squared = r_squared(res, tot),
                     !.interpretation = interpret_r_squared(r_squared(res, tot)),
                     !.has_rows = has_true,
                     !.rows = IF has_true THEN difference_rows(true_params, params)
                              ELSE <<>>]

\* the report once function(x_data, *params) was called: its exception is
\* the exception of generate_report
report_of(params, has_true, true_params, y_data, y_pred, rounds) ==
    IF y_pred.raised
    THEN [NoReport EXCEPT !.raised = TRUE, !.exc = y_pred.exc]
    ELSE report_metrics(params, has_true, true_params,
                        ss_tot(y_data, np_mean(y_data, rounds)),
                        sum_of_squares(y_data, y_pred.values))

generate_report(params, has_true, true_params, x_data, y_data, function, rounds) ==
    report_of(params, has_true, true_params, y_data,
              CallOnArray(function, x_data, params), rounds)

(***************************************************************************)
(* Generating reports and interpreting values of R-squared.                *)
(***************************************************************************)
ReportYValues == {Fin(0), Fin(1), Fin(2)}

ReportTrueParams ==
    {<<Fin(1)>>, <<Fin(2), Fin(1)>>, <<Fin(1), Fin(1), Fin(1)>>}

\* the datasets of a report: from a CSV file (no true parameters) or synthetic
ReportDatasets ==
    UNION {{[has |-> TRUE, x_data |-> [i \in 1..n |-> Fin(i)], y_data |-> y,
             dtype |-> "float64", has_true |-> FALSE, true_params |-> NoTrueParams] :
                y \in [1..n -> ReportYValues]}
           \cup
           {[has |-> TRUE, x_data |-> [i \in 1..n |-> Fin(i)], y_data |-> y,
             dtype |-> "float64", has_true |-> TRUE, true_params |-> t] :
                y \in [1..n -> ReportYValues], t \in ReportTrueParams} :
           n \in 1..MaxReportData}

ReportFunctions ==
    {ModelsGetFunction("Linear"),
     create_function_from_string("a*x", P_a),
     create_function_from_string("a*x+q", P_ab)}

FittedParams ==
    {<<Fin(0), Fin(1)>>, <<Fin(1), Fin(0)>>, <<Fin(2), Fin(1)>>,
     <<Fin(1), Fin(1), Fin(1)>>}

\* the values of R-squared interpreted: hundredths around every threshold
Hundredths == {-50, 0, 29, 30, 31, 60, 61, 80, 81, 90, 91, 95, 96, 100}
RSquaredValues == {Quotient(n, 100) : n \in Hundredths} \cup {QNaN, QNInf, HugeNegative}

ReportRequest(function, params) ==
    [op |-> "pending", function |-> function, params |-> params, report |-> NoReport]

GenerateReport(rounds) ==
    /\ ret.op = "pending"
    /\ ret' = [ret EXCEPT !.op = "report",
                          !.report = generate_report(ret.params, data.has_true,
                                                     data.true_params, data.x_data,
                                                     data.y_data, ret.function, rounds)]
    /\ UNCHANGED <<registry, custom_functions, file, data, fit, obj>>

InterpretRSquared ==
    /\ obj.kind = "r_squared"
    /\ obj' = [obj EXCEPT !.kind = "interpreted",
                          !.text = interpret_r_squared(obj.r),
                          !.text2 = interpret_r_squared(obj.r2)]
    /\ UNCHANGED <<registry, custom_functions, file, ret, data, fit>>

InitReport ==
    /\ custom_functions = <<>>
    /\ file = NoFile
    /\ registry = FunctionModelsInit
    /\ fit = NoFit
    /\ \/ /\ data \in ReportDatasets
          /\ ret \in {ReportRequest(function, params) :
                         function \in ReportFunctions, params \in FittedParams}
          /\ obj = NoObj
       \/ /\ data = NoData
          /\ ret = NoCall
          /\ obj \in {[kind |-> "r_squared", r |-> r, r2 |-> r2, text |-> "", text2 |-> ""] :
                         r \in RSquaredValues, r2 \in RSquaredValues}

NextReport ==
    \/ \E rounds \in MeanRoundings(data.y_data) : GenerateReport(rounds)
    \/ InterpretRSquared

SpecReport == InitReport /\ [][NextReport]_vars

(***************************************************************************)
(* Claims about the report.                                                *)
(***************************************************************************)
Reported == ret.op = "report" /\ ~ret.report.raised

Constant(y_data) == \A i \in 1..Len(y_data) : y_data[i] = y_data[1]

\* the same number, by cross-multiplication
SameQuotient(a, b) == a.k = b.k /\ (a.k = "fin" => a.n * b.d = b.n * a.d)

\* C21: for a dataset whose y values are all identical, whatever the fitted
\* parameters, the report uses R-squared = 1 exactly and does not divide by
\* SS_tot; when SS_tot is not 0 it uses 1 - SS_res / SS_tot.
C21_ConstantColumnGivesOne ==
    Reported =>
        /\ Constant(data.y_data) =>
              /\ ret.report.r_squared = One
              /\ ~ret.report.divided
        /\ ~IsZero(ret.report.ss_tot) =>
              ret.report.r_squared =
                  one_minus_quotient(ret.report.ss_res, ret.report.ss_tot)

\* C22: interpret_r_squared answers for every value, with strict thresholds:
\* above 0.95 Excellent, (0.9, 0.95] Very good, (0.8, 0.9] Good, (0.6, 0.8]
\* Moderate, (0.3, 0.6] Poor, at most 0.3 Very poor; a larger value never
\* gets a worse label.
Rank(text) ==
    CASE text = "Excellent fit" -> 5
      [] text = "Very good fit" -> 4
      [] text = "Good fit" -> 3
      [] text = "Moderate fit" -> 2
      [] text = "Poor fit" -> 1
      [] text = "Very poor fit" -> 0
      [] OTHER -> -1

Within(r, low, high) == 100 * r.n > low * r.d /\ 100 * r.n <= high * r.d

C22_StrictThresholds ==
    obj.kind = "interpreted" =>
        /\ Rank(obj.text) >= 0
        /\ obj.r.k = "fin" =>
              /\ (100 * obj.r.n > 95 * obj.r.d) <=> (obj.text = "Excellent fit")
              /\ Within(obj.r, 90, 95) <=> (obj.text = "Very good fit")
              /\ Within(obj.r, 80, 90) <=> (obj.text = "Good fit")
              /\ Within(obj.r, 60, 80) <=> (obj.text = "Moderate fit")
              /\ Within(obj.r, 30, 60) <=> (obj.text = "Poor fit")
              /\ (100 * obj.r.n <= 30 * obj.r.d) <=> (obj.text = "Very poor fit")
        /\ (obj.r.k = "fin" /\ obj.r2.k = "fin" /\ obj.r.n * obj.r2.d <= obj.r2.n * obj.r.d)
              => Rank(obj.text) <= Rank(obj.text2)

\* a value exactly on 0.95 and one exactly on 0.3, each in the lower bucket
C22_Witness ==
    /\ obj.kind = "interpreted"
    /\ obj.r = Quotient(95, 100) /\ obj.text = "Very good fit"
    /\ obj.r2 = Quotient(30, 100) /\ obj.text2 = "Very poor fit"

\* C24: with true parameters supplied the report has one difference row per
\* index below min(len(true_params), len(params)), each fitted minus true,
\* and no error when the lengths differ; without them it has no rows.
C24_DifferenceRows ==
    Reported =>
        /\ ret.report.has_rows = data.has_true
        /\ data.has_true =>
              /\ Len(ret.report.rows) = Min(Len(data.true_params), Len(ret.params))
              /\ \A i \in 1..Len(ret.report.rows) :
                    ret.report.rows[i].diff = FSub(ret.params[i], data.true_params[i])
        /\ ~data.has_true => ret.report.rows = <<>>

\* three true parameters against two fitted ones: two rows, the first 0 - 1
C24_Witness ==
    /\ Reported
    /\ data.has_true /\ Len(data.true_params) = 3 /\ Len(ret.params) = 2
    /\ Len(ret.report.rows) = 2
    /\ ret.report.rows[1].diff = Fin(-1)

(***************************************************************************)
(* Claims about the routines of the dispatch table.                        *)
(***************************************************************************)
\* the scipy entry point and the objective the table gives each name
EntryOf(algorithm_name) ==
    CASE algorithm_name = "Differential Evolution" -> <<"differential_evolution", "scalar">>
      [] algorithm_name = "Basin Hopping" -> <<"basinhopping", "scalar">>
      [] algorithm_name = "SHGO" -> <<"shgo", "scalar">>
      [] algorithm_name = "Dual Annealing" -> <<"dual_annealing", "scalar">>
      [] algorithm_name = "Least Squares" -> <<"least_squares", "vector">>
      [] OTHER -> <<"", "">>

\* C23: the dispatch table maps exactly the five names to their routines;
\* Differential Evolution, Basin Hopping, SHGO and Dual Annealing hand the
\* optimizer the scalar objective and Least Squares the vector objective; each
\* returns result.x of the one optimizer call it made, and a call that raised
\* is not made again.
C23_ObjectiveShapePerAlgorithm ==
    Done =>
        /\ fit.algorithm_name \notin Algorithms => fit.call = NotCalled
        /\ fit.call # NotCalled =>
              /\ fit.algorithm_name \in Algorithms
              /\ fit.call.entry = EntryOf(fit.algorithm_name)[1]
              /\ fit.call.objective = EntryOf(fit.algorithm_name)[2]
              /\ fit.call.evals <= 1
              /\ fit.opt.at = "fails" => fit.outcome = "raised" /\ fit.call.x = <<>>
              /\ fit.outcome = "returned" =>
                    fit.call.x = candidate(fit.call.passed_bounds, fit.call.passed_x0,
                                           fit.opt)

\* Least Squares returns result.x from a call with the vector objective
C23_Witness ==
    /\ fit.outcome = "returned"
    /\ fit.algorithm_name = "Least Squares"
    /\ fit.call.entry = "least_squares" /\ fit.call.objective = "vector"
    /\ Len(fit.call.x) = 2

(***************************************************************************)
(* Claims about the parameters the objectives pass on.                     *)
(***************************************************************************)
Evaluated == obj.kind \in {"scalar", "vector"}

DeclaredParamCount(function) == ModelsGetFunctionInfo(function.name).param_count

\* C25: bytecode equality identifies each of the seven built-ins uniquely;
\* for a built-in target and a candidate longer than its param_count the
\* objective calls the function on the first param_count entries only; for a
\* custom evaluator it passes the whole candidate; a candidate shorter than a
\* built-in's arity makes the scalar objective return infinity.
C25_TrimmedToParamCount ==
    /\ \A a, b \in Builtins :
          co_code(ModelsGetFunction(a)) = co_code(ModelsGetFunction(b)) => a = b
    /\ \A a \in Builtins :
          co_code(ModelsGetFunction(a)) # co_code(create_function_from_string("a*x+b", P_ab))
    /\ Evaluated =>
          /\ (obj.function.kind = "builtin"
                /\ Len(obj.params) > DeclaredParamCount(obj.function)) =>
                obj.y_pred = CallOnArray(obj.function, data.x_data,
                                 SubSeq(obj.params, 1, DeclaredParamCount(obj.function)))
          /\ obj.function.kind # "builtin" =>
                obj.y_pred = CallOnArray(obj.function, data.x_data, obj.params)
          /\ (obj.kind = "scalar" /\ obj.function.kind = "builtin"
                /\ Len(obj.params) < Arity(obj.function.name)) =>
                obj.value = Inf

\* Linear evaluated on a candidate of three entries: the call succeeded
C25_Witness ==
    /\ obj.kind = "scalar"
    /\ obj.function.kind = "builtin" /\ obj.function.name = "Linear"
    /\ Len(obj.params) = 3
    /\ ~obj.y_pred.raised
    /\ IsFinite(obj.value)

(***************************************************************************)
(* Claims about the catalog in memory and the document on disk.            *)
(***************************************************************************)
\* C27: after add_function or remove_function returned True, functions.json
\* holds exactly the entries of the in-memory catalog, each with its
\* expression and params, and loading it gives the same catalog.
C27_MemoryAndDiskAgree ==
    (ret.op \in {"add", "remove"} /\ ret.value) =>
        /\ file.kind = "json"
        /\ file.doc = save_data(custom_functions)
        /\ load_functions(file) = custom_functions

\* a successful removal that leaves one function in memory and on disk
C27_Witness ==
    /\ ret.op = "remove" /\ ret.value
    /\ Len(custom_functions) = 1
    /\ file.kind = "json" /\ Len(file.doc) = 1
    /\ file.doc[1].name = custom_functions[1].name

\* C28: when add_function returns False because writing functions.json
\* failed, the in-memory catalog is what it was before the call and the
\* document persisted before is still on disk and loadable.
C28_FailedAddChangesNothing ==
    [][(ret'.op = "add" /\ ~ret'.value /\ CanCreate(ret'.params)) =>
          /\ custom_functions' = custom_functions
          /\ file' = file]_vars

(***************************************************************************)
(* The main window: MainWindow.                                            *)
(***************************************************************************)
\* MainWindow.__init__: the combo box holds the built-in names and the names
\* of the catalog, its first item is selected and the run button is disabled.
\* items is the set of texts of the combo box; true_params_of remembers the
\* name for which the data manager's true_params were generated.
NewWindow(cat) ==
    [kind |-> "window",
     items |-> Builtins \cup {cat[i].name : i \in 1..Len(cat)},
     selected |-> BuiltinNames[1],
     run_enabled |-> FALSE,
     true_params_of |-> ""]

\* the evaluator the handlers resolve with custom functions looked up first
window_function_custom_first(cat, function_name) ==
    IF HasKey(cat, function_name)
    THEN get_function(cat, function_name)
    ELSE ModelsGetFunction(function_name)

\* function = self.function_models.get_function(function_name), and
\* self.custom_function_manager.get_function(function_name) if it is None
window_function(cat, function_name) ==
    IF ModelsGetFunction(function_name).kind # "none"
    THEN ModelsGetFunction(function_name)
    ELSE get_function(cat, function_name)

\* function_info of the built-in registry, else of the custom manager
window_function_info(cat, function_name) ==
    IF ~IsNone(ModelsGetFunctionInfo(function_name))
    THEN ModelsGetFunctionInfo(function_name).param_count
    ELSE get_function_info(cat, function_name).param_count

\* generate_synthetic_data once the data manager was called: an exception
\* leaves the handler before the button is enabled
window_generated(w, d, r) ==
    IF r.raised
    THEN [window |-> w, data |-> d, stored |-> FALSE]
    ELSE [window |-> [w EXCEPT !.run_enabled = TRUE, !.true_params_of = w.selected],
          data |-> r.data, stored |-> TRUE]

\* MainWindow.generate_synthetic_data
window_generate_synthetic_data(w, d, cat, num_points, noise) ==
    IF window_function(cat, w.selected).kind = "none"
    THEN [window |-> w, data |-> d, stored |-> FALSE]
    ELSE window_generated(w, d,
             generate_synthetic_data(d, w.selected, window_function(cat, w.selected),
                                     num_points, noise))

\* import_csv_data that enables the button whatever the file holds
import_csv_data_enables(w, d, csv) ==
    IF csv.outcome # "ok"
    THEN [window |-> [w EXCEPT !.run_enabled = TRUE], data |-> d, stored |-> FALSE]
    ELSE [window |-> [w EXCEPT !.run_enabled = TRUE, !.true_params_of = ""],
          data |-> set_data(d, csv.x, csv.y, csv.dtype), stored |-> TRUE]

\* MainWindow.import_csv_data: nothing happens when the dialog is cancelled,
\* pd.read_csv raises or the file has fewer than two columns
import_csv_data(w, d, csv) ==
    IF csv.outcome # "ok"
    THEN [window |-> w, data |-> d, stored |-> FALSE]
    ELSE [window |-> [w EXCEPT !.run_enabled = TRUE, !.true_params_of = ""],
          data |-> set_data(d, csv.x, csv.y, csv.dtype), stored |-> TRUE]

\* CustomFunctionDialog.save_function: the dialog is accepted when the
\* expression evaluates at x = 1.0 with the initial values
DialogAccepts(expression, params) ==
    /\ CanCreate(params)
    /\ ~IsErr(custom_function(expression, [i \in 1..Len(params) |-> params[i].name],
                              Fin(1), [i \in 1..Len(params) |-> params[i].init_value]))

\* the window once add_function answered: addItem and setCurrentText on success
window_added(w, name, r) ==
    [window |-> IF r.value
                THEN [w EXCEPT !.items = @ \cup {name}, !.selected = name]
                ELSE w,
     cat |-> r.cat, file |-> r.file]

\* MainWindow.add_custom_function
window_add_custom_function(w, cat, f, name, expression, params, io) ==
    IF ~DialogAccepts(expression, params)
    THEN [window |-> w, cat |-> cat, file |-> f]
    ELSE window_added(w, name, add_function(cat, f, name, expression, params, io))

\* create_algorithm_tab keeps bounds_edit and init_edit in local variables and
\* sets no attribute on the tab it returns
TabHasEdits == FALSE

\* algorithm_params: the function name, and bounds or x0 of param_count
\* entries when hasattr(current_tab, 'bounds_edit' / 'init_edit')
window_algorithm_params(algorithm_name, function_name, param_count) ==
    IF ~TabHasEdits
    THEN AlgorithmParams(algorithm_name, function_name, -1)
    ELSE [function_name |-> function_name,
          has_bounds |-> UsesBounds(algorithm_name),
          bounds |-> IF UsesBounds(algorithm_name)
                     THEN Repeat(DefaultBound, param_count) ELSE <<>>,
          has_x0 |-> algorithm_name \in {"Basin Hopping", "Least Squares"},
          x0 |-> IF algorithm_name \in {"Basin Hopping", "Least Squares"}
                 THEN Repeat(DefaultGuess, param_count) ELSE <<>>]

NotRun == [outcome |-> "none", exc |-> "", param_count |-> -1, call |-> NotCalled]

NoRun ==
    [outcome |-> "none", function_name |-> "", function |-> NoFunction,
     param_count |-> -1, algorithm_name |-> "", core |-> NotRun,
     has_true |-> FALSE, true_params |-> NoTrueParams, report |-> NoReport]

\* the end of the try block: the report is shown unless generate_report raised
window_report(run, d, report) ==
    IF report.raised
    THEN [run EXCEPT !.outcome = "raised"]
    ELSE [run EXCEPT !.outcome = "reported", !.has_true = d.has_true,
                     !.true_params = d.true_params, !.report = report]

\* the try block once run_fitting was called: its exception, one of the plot
\* (min of an empty x_data, function(x_fit, *params)) or one of
\* generate_report ends in the message box
window_fitted(run, d, function, r, plot, rounds) ==
    IF r.outcome = "raised"
    THEN [run EXCEPT !.outcome = "raised", !.core = r]
    ELSE IF plot /\ (Len(d.x_data) = 0 \/ CallOnArray(function, d.x_data, r.call.x).raised)
    THEN [run EXCEPT !.outcome = "raised", !.core = r]
    ELSE window_report([run EXCEPT !.core = r], d,
             generate_report(r.call.x, d.has_true, d.true_params, d.x_data, d.y_data,
                             function, rounds))

\* MainWindow.run_fitting
window_run_fitting(w, d, cat, f, algorithm_name, opt, plot, rounds) ==
    IF ~has_data(d)
    THEN [NoRun EXCEPT !.outcome = "no_data"]
    ELSE IF window_function(cat, w.selected).kind = "none"
            \/ window_function_info(cat, w.selected) = -1
    THEN [NoRun EXCEPT !.outcome = "not_found", !.function_name = w.selected]
    ELSE window_fitted(
             [NoRun EXCEPT !.function_name = w.selected,
                           !.function = window_function(cat, w.selected),
                           !.param_count = window_function_info(cat, w.selected),
                           !.algorithm_name = algorithm_name],
             d, window_function(cat, w.selected),
             run_fitting(algorithm_name, window_function(cat, w.selected),
                         d.x_data, d.y_data, d.dtype,
                         window_algorithm_params(algorithm_name, w.selected,
                             window_function_info(cat, w.selected)),
                         f, opt),
             plot, rounds)

(***************************************************************************)
(* The handlers of the main window as steps.                               *)
(***************************************************************************)
WindowNames == {"Linear", "f"}
WindowFunctions == {<<"a*x", P_a>>, <<"a*x+q", P_ab>>}
Selectable == {"Linear", "Quadratic", "f"}
WindowAlgorithms == Algorithms
WindowOptimizers == [at : {"fails", "low", "inside"}, build : {"raises"}]
WindowNoises == {[i \in 1..MaxData |-> 1], [i \in 1..MaxData |-> -1]}
CsvFiles ==
    {[outcome |-> o, x |-> <<>>, y |-> <<>>, dtype |-> "float64"] :
        o \in {"cancelled", "read_fails", "one_column"}}
    \cup {[outcome |-> "ok", x |-> [i \in 1..n |-> Fin(i)],
           y |-> [i \in 1..n |-> Fin(i % 2)], dtype |-> t] :
             n \in 0..MaxData, t \in {"float64", "int64"}}

NoHandler == [op |-> "init", stored |-> FALSE, function |-> NoFunction]

GenerateClicked(noise) ==
    /\ obj' = window_generate_synthetic_data(obj, data, custom_functions,
                                             MaxData, noise).window
    /\ data' = window_generate_synthetic_data(obj, data, custom_functions,
                                              MaxData, noise).data
    /\ ret' = [op |-> "generate",
               stored |-> window_generate_synthetic_data(obj, data, custom_functions,
                                                         MaxData, noise).stored,
               function |-> window_function(custom_functions, obj.selected)]
    /\ fit' = NoRun
    /\ UNCHANGED <<registry, custom_functions, file>>

ImportClicked(csv) ==
    /\ obj' = import_csv_data(obj, data, csv).window
    /\ data' = import_csv_data(obj, data, csv).data
    /\ ret' = [NoHandler EXCEPT !.op = "import",
                                !.stored = import_csv_data(obj, data, csv).stored]
    /\ fit' = NoRun
    /\ UNCHANGED <<registry, custom_functions, file>>

\* currentTextChanged: on_function_changed rewrites labels and text fields only
FunctionChanged(function_name) ==
    /\ function_name \in obj.items
    /\ function_name # obj.selected
    /\ obj' = [obj EXCEPT !.selected = function_name]
    /\ ret' = [NoHandler EXCEPT !.op = "select"]
    /\ fit' = NoRun
    /\ UNCHANGED <<registry, custom_functions, file, data>>

AddCustomClicked(name, expression, params, io) ==
    /\ obj' = window_add_custom_function(obj, custom_functions, file, name,
                                         expression, params, io).window
    /\ custom_functions' = window_add_custom_function(obj, custom_functions, file, name,
                                                      expression, params, io).cat
    /\ file' = window_add_custom_function(obj, custom_functions, file, name,
                                          expression, params, io).file
    /\ ret' = [NoHandler EXCEPT !.op = "add"]
    /\ fit' = NoRun
    /\ UNCHANGED <<registry, data>>

RunClicked(algorithm_name, opt, plot, rounds) ==
    /\ fit' = window_run_fitting(obj, data, custom_functions, file, algorithm_name,
                                 opt, plot, rounds)
    /\ ret' = [NoHandler EXCEPT !.op = "run"]
    /\ UNCHANGED <<registry, custom_functions, file, data, obj>>

WindowCatalogs ==
    {AfterAdds(<<>>), AfterAdds(<<<<"Linear", "a*x", P_a>>>>)}

InitWindow ==
    /\ \E c \in WindowCatalogs :
          /\ custom_functions = c.cat
          /\ file = c.file
          /\ obj = NewWindow(c.cat)
    /\ ret = NoHandler
    /\ registry = FunctionModelsInit
    /\ data = NoData
    /\ fit = NoRun

NextWindow ==
    \/ \E noise \in WindowNoises : GenerateClicked(noise)
    \/ \E csv \in CsvFiles : ImportClicked(csv)
    \/ \E function_name \in Selectable : FunctionChanged(function_name)
    \/ \E name \in WindowNames, fn \in WindowFunctions, io \in {"ok", "write_fails"} :
          AddCustomClicked(name, fn[1], fn[2], io)
    \/ \E algorithm_name \in WindowAlgorithms, opt \in WindowOptimizers,
          plot \in BOOLEAN, rounds \in MeanRoundings(data.y_data) :
          RunClicked(algorithm_name, opt, plot, rounds)

SpecWindow == InitWindow /\ [][NextWindow]_vars

(***************************************************************************)
(* Claims about the main window.                                           *)
(***************************************************************************)
\* C26: whenever a fit report is generated with true parameters present,
\* those true parameters were generated for the function fitted in that run
\* (the same function name, hence the same parameter count).
C26_TrueParamsOfFittedFunction ==
    (fit.outcome = "reported" /\ fit.has_true) =>
        /\ obj.true_params_of = fit.function_name
        /\ Len(fit.true_params) = fit.param_count

\* C29: the Run Fitting button starts disabled and is enabled only while
\* has_data() is true; it becomes enabled only in a synthetic generation or a
\* CSV import that stored data; has_data() never turns false again; and
\* run_fitting without data returns without calling the dispatcher.
C29_RunGatedOnData ==
    /\ ~obj.run_enabled
    /\ [](obj.run_enabled => has_data(data))
    /\ [](fit.outcome = "no_data" => fit.core = NotRun)
    /\ [][/\ (~obj.run_enabled /\ obj'.run_enabled) =>
                /\ ret'.op \in {"generate", "import"}
                /\ ret'.stored
                /\ has_data(data')
          /\ has_data(data) => has_data(data')
          /\ (ret'.op = "run" /\ ~has_data(data)) => fit'.outcome = "no_data"]_vars

\* the button is enabled after a CSV import stored two points
C29_Witness ==
    /\ ret.op = "import" /\ ret.stored
    /\ obj.run_enabled
    /\ has_data(data) /\ Len(data.x_data) = 2
    /\ ~data.has_true

Shadowed(name) == name \in Builtins /\ HasKey(custom_functions, name)

\* C30: when a custom function is stored under the name of a built-in, the
\* handlers of the main window and run_fitting resolve the name to the
\* built-in entry: the evaluator fitted is the built-in and the param_count of
\* the window, of run_fitting and of the bounds or the initial guess of the
\* routine is the built-in's.
C30_BuiltinsTakePrecedence ==
    /\ (ret.op = "generate" /\ Shadowed(obj.selected)) =>
          ret.function = ModelsGetFunction(obj.selected)
    /\ (fit.outcome \in {"reported", "raised"} /\ Shadowed(fit.function_name)) =>
          /\ fit.function = ModelsGetFunction(fit.function_name)
          /\ fit.param_count = BuiltinParamCount(fit.function_name)
          /\ fit.core.param_count = BuiltinParamCount(fit.function_name)
          /\ fit.core.call # NotCalled =>
                Len(fit.core.call.passed_bounds) + Len(fit.core.call.passed_x0)
                    = BuiltinParamCount(fit.function_name)

\* Linear is fitted while the catalog holds a custom function named Linear
\* with one parameter: the result has the two parameters of the built-in
C30_Witness ==
    /\ fit.outcome = "reported"
    /\ fit.function_name = "Linear"
    /\ HasKey(custom_functions, "Linear")
    /\ get_function_info(custom_functions, "Linear").param_count = 1
    /\ Len(fit.core.call.x) = 2

====
